---- MODULE Spec2Model ----
(***************************************************************************)
(* Model of carreras_desde_pdf.py: the normalisers that build the          *)
(* canonical per-race structures and the two reconciliation engines        *)
(* (comparar_pdf_y_reporte, comparar_palermo).                             *)
(*                                                                         *)
(* Conventions                                                             *)
(*  - a Python dict is a TLA+ function whose DOMAIN is the key set;        *)
(*  - an amount (Python float) is an integer number of thousandths, so     *)
(*    1000,50 is 1000500 and the tolerance 0.01 is 10;                     *)
(*  - an optional amount is a sequence: None is << >> and the float v is   *)
(*    << v >>;                                                             *)
(*  - a discrepancy message (an f-string in the source) is the record of   *)
(*    the values the f-string interpolates, tagged with the message kind.  *)
(***************************************************************************)
EXTENDS Integers, Sequences, FiniteSets, TLC

VARIABLES
    motor,          \* which handler this behaviour runs
    pc,             \* position of the handler: "inicio" or "fin"
    datos_pdf,      \* comparar_pdf_y_reporte: the canonical structure of the PDF;
                    \* comparar_palermo: the caller's datos_pdf object
    datos_reporte,  \* the structure read from the report of this call
    fecha_objetivo, \* comparar_palermo: the selected date, None or a date
    diferencias,    \* the list of discrepancy messages returned
    coincide_todo,  \* the verdict returned
    datos_leidos,   \* comparar_palermo: datos_pdf as _leer_palermo_desde_pdf returned it
    llamadas,       \* number of calls started with the same datos_pdf object
    contenido,      \* _normalizar_reporte: what the patterns find in the report's text
    entrada,        \* the argument of a function of the classifier, parser or expander
    salida          \* what that function returned

vars == <<motor, pc, datos_pdf, datos_reporte, fecha_objetivo, diferencias,
          coincide_todo, datos_leidos, llamadas, contenido, entrada, salida>>

(***************************************************************************)
(* Bounds of the model.                                                    *)
(***************************************************************************)
MaxCarrera == 2
MaxCaballos == 1
MaxApuestas == 2
MaxLineas == 3
MaxLlamadas == 2
MaxFilas == 2
MaxPalabras == 3
MaxCaracteres == 7
MaxPaginas == 2
MaxFragmentos == 2
MaxSegmentos == 3
MaxSimbolos == 4
MaxObservaciones == 3
MaxLineasPalermo == 4
MaxLineasPagina == 2
MaxRelleno == 16
MaxPalabrasPalermo == 3

Carreras == 1..MaxCarrera

(***************************************************************************)
(* Optional amounts.                                                       *)
(***************************************************************************)
NULL == << >>
Algun(v) == << v >>
Abs(x) == IF x < 0 THEN -x ELSE x

\* Amounts the inputs draw from: equal, 0.010 apart (inside the tolerance)
\* and 0.011 / 0.021 apart (outside it).
Montos == {1000000, 1000010, 1000021}
ValoresOpc == {NULL} \cup {Algun(v) : v \in Montos}

(***************************************************************************)
(* Helpers on finite sets and sequences.                                   *)
(***************************************************************************)
Min(S) == CHOOSE x \in S : \A y \in S : x <= y

RECURSIVE Sorted(_)
\* sorted(S) for a finite set of integers
Sorted(S) == IF S = {} THEN << >> ELSE LET m == Min(S) IN << m >> \o Sorted(S \ {m})

\* Every order in which iterating over the Python set S can yield its members.
Ordenes(S) ==
    {s \in [1..Cardinality(S) -> S] : \A i, j \in 1..Cardinality(S) : i # j => s[i] # s[j]}

(***************************************************************************)
(* comparar_pdf_y_reporte                                                  *)
(***************************************************************************)
apuestas_sin_comparar_valor == {"GAN", "SEG", "TER"}

Tolerancia == 10

Msg(n, tipo, codigos, vpdf, vrep) ==
    [carrera |-> n, tipo |-> tipo, codigos |-> codigos, pdf |-> vpdf, rep |-> vrep]

\* DifValorGen with the test of the report's amount not guarded by the test
\* of the document's (elif valor_reporte is None).
DifValorGen_NullSinGuarda(n, codigo, valor_pdf, valor_reporte) ==
    IF codigo \in apuestas_sin_comparar_valor THEN << >>
    ELSE IF valor_pdf # NULL /\ valor_reporte # NULL
    THEN IF Abs(valor_pdf[1] - valor_reporte[1]) > Tolerancia
         THEN << Msg(n, "ValorDiferente", {codigo}, valor_pdf, valor_reporte) >>
         ELSE << >>
    ELSE IF valor_reporte = NULL
    THEN << Msg(n, "ReporteNull", {codigo}, valor_pdf, NULL) >>
    ELSE IF valor_pdf = NULL /\ valor_reporte # NULL
    THEN << Msg(n, "PdfNull", {codigo}, NULL, valor_reporte) >>
    ELSE << >>

\* DifValorGen without the skip of GAN, SEG and TER.
DifValorGen_SinExentos(n, codigo, valor_pdf, valor_reporte) ==
    IF valor_pdf # NULL /\ valor_reporte # NULL
    THEN IF Abs(valor_pdf[1] - valor_reporte[1]) > Tolerancia
         THEN << Msg(n, "ValorDiferente", {codigo}, valor_pdf, valor_reporte) >>
         ELSE << >>
    ELSE IF valor_pdf # NULL /\ valor_reporte = NULL
    THEN << Msg(n, "ReporteNull", {codigo}, valor_pdf, NULL) >>
    ELSE IF valor_pdf = NULL /\ valor_reporte # NULL
    THEN << Msg(n, "PdfNull", {codigo}, NULL, valor_reporte) >>
    ELSE << >>

\* DifValorGen with >= in place of > in the tolerance test.
DifValorGen_MayorIgual(n, codigo, valor_pdf, valor_reporte) ==
    IF codigo \in apuestas_sin_comparar_valor THEN << >>
    ELSE IF valor_pdf # NULL /\ valor_reporte # NULL
    THEN IF Abs(valor_pdf[1] - valor_reporte[1]) >= Tolerancia
         THEN << Msg(n, "ValorDiferente", {codigo}, valor_pdf, valor_reporte) >>
         ELSE << >>
    ELSE IF valor_pdf # NULL /\ valor_reporte = NULL
    THEN << Msg(n, "ReporteNull", {codigo}, valor_pdf, NULL) >>
    ELSE IF valor_pdf = NULL /\ valor_reporte # NULL
    THEN << Msg(n, "PdfNull", {codigo}, NULL, valor_reporte) >>
    ELSE << >>

\* Lines 803-822: the body of the loop over the common codes, for one code.
DifValorGen(n, codigo, valor_pdf, valor_reporte) ==
    IF codigo \in apuestas_sin_comparar_valor THEN << >>
    ELSE IF valor_pdf # NULL /\ valor_reporte # NULL
    THEN IF Abs(valor_pdf[1] - valor_reporte[1]) > Tolerancia
         THEN << Msg(n, "ValorDiferente", {codigo}, valor_pdf, valor_reporte) >>
         ELSE << >>
    ELSE IF valor_pdf # NULL /\ valor_reporte = NULL
    THEN << Msg(n, "ReporteNull", {codigo}, valor_pdf, NULL) >>
    ELSE IF valor_pdf = NULL /\ valor_reporte # NULL
    THEN << Msg(n, "PdfNull", {codigo}, NULL, valor_reporte) >>
    ELSE << >>

RECURSIVE DifValoresGen(_, _, _, _, _)
\* Lines 802-822: the loop over apuestas_comunes, iterated in the order `orden`.
DifValoresGen(pdf, rep, n, orden, i) ==
    IF i > Len(orden) THEN << >>
    ELSE DifValorGen(n, orden[i], pdf[n].apuestas[orden[i]], rep[n].apuestas[orden[i]])
         \o DifValoresGen(pdf, rep, n, orden, i + 1)

ApuestasComunesGen(pdf, rep, n) ==
    IF n \in DOMAIN pdf /\ n \in DOMAIN rep
    THEN DOMAIN pdf[n].apuestas \cap DOMAIN rep[n].apuestas
    ELSE {}

\* DifCarreraGen with solo_en_reporte computed like solo_en_pdf.
DifCarreraGen_SoloEnReporteCopiado(pdf, rep, n, orden) ==
    IF n \notin DOMAIN pdf
    THEN << Msg(n, "CarreraSoloEnReporte", {}, NULL, NULL) >>
    ELSE IF n \notin DOMAIN rep
    THEN << Msg(n, "CarreraSoloEnPdf", {}, NULL, NULL) >>
    ELSE LET caballos_pdf == pdf[n].caballos
             caballos_reporte == rep[n].caballos
             apuestas_pdf == DOMAIN pdf[n].apuestas
             apuestas_reporte == DOMAIN rep[n].apuestas
             solo_en_pdf == apuestas_pdf \ apuestas_reporte
             solo_en_reporte == apuestas_pdf \ apuestas_reporte
         IN  (IF caballos_pdf # caballos_reporte
              THEN << Msg(n, "CaballosDifiere", {}, Algun(caballos_pdf), Algun(caballos_reporte)) >>
              ELSE << >>)
             \o (IF solo_en_pdf # {}
                 THEN << Msg(n, "ApuestasSoloEnPdf", solo_en_pdf, NULL, NULL) >>
                 ELSE << >>)
             \o (IF solo_en_reporte # {}
                 THEN << Msg(n, "ApuestasSoloEnReporte", solo_en_reporte, NULL, NULL) >>
                 ELSE << >>)
             \o DifValoresGen(pdf, rep, n, orden, 1)

\* DifCarreraGen with the amounts compared before the bet sets.
DifCarreraGen_ValoresPrimero(pdf, rep, n, orden) ==
    IF n \notin DOMAIN pdf
    THEN << Msg(n, "CarreraSoloEnReporte", {}, NULL, NULL) >>
    ELSE IF n \notin DOMAIN rep
    THEN << Msg(n, "CarreraSoloEnPdf", {}, NULL, NULL) >>
    ELSE LET caballos_pdf == pdf[n].caballos
             caballos_reporte == rep[n].caballos
             apuestas_pdf == DOMAIN pdf[n].apuestas
             apuestas_reporte == DOMAIN rep[n].apuestas
             solo_en_pdf == apuestas_pdf \ apuestas_reporte
             solo_en_reporte == apuestas_reporte \ apuestas_pdf
         IN  (IF caballos_pdf # caballos_reporte
              THEN << Msg(n, "CaballosDifiere", {}, Algun(caballos_pdf), Algun(caballos_reporte)) >>
              ELSE << >>)
             \o DifValoresGen(pdf, rep, n, orden, 1)
             \o (IF solo_en_pdf # {}
                 THEN << Msg(n, "ApuestasSoloEnPdf", solo_en_pdf, NULL, NULL) >>
                 ELSE << >>)
             \o (IF solo_en_reporte # {}
                 THEN << Msg(n, "ApuestasSoloEnReporte", solo_en_reporte, NULL, NULL) >>
                 ELSE << >>)

\* Lines 763-822: one iteration of the loop over the sorted race numbers.
DifCarreraGen(pdf, rep, n, orden) ==
    IF n \notin DOMAIN pdf
    THEN << Msg(n, "CarreraSoloEnReporte", {}, NULL, NULL) >>
    ELSE IF n \notin DOMAIN rep
    THEN << Msg(n, "CarreraSoloEnPdf", {}, NULL, NULL) >>
    ELSE LET caballos_pdf == pdf[n].caballos
             caballos_reporte == rep[n].caballos
             apuestas_pdf == DOMAIN pdf[n].apuestas
             apuestas_reporte == DOMAIN rep[n].apuestas
             solo_en_pdf == apuestas_pdf \ apuestas_reporte
             solo_en_reporte == apuestas_reporte \ apuestas_pdf
         IN  (IF caballos_pdf # caballos_reporte
              THEN << Msg(n, "CaballosDifiere", {}, Algun(caballos_pdf), Algun(caballos_reporte)) >>
              ELSE << >>)
             \o (IF solo_en_pdf # {}
                 THEN << Msg(n, "ApuestasSoloEnPdf", solo_en_pdf, NULL, NULL) >>
                 ELSE << >>)
             \o (IF solo_en_reporte # {}
                 THEN << Msg(n, "ApuestasSoloEnReporte", solo_en_reporte, NULL, NULL) >>
                 ELSE << >>)
             \o DifValoresGen(pdf, rep, n, orden, 1)

RECURSIVE DiferenciasGenDesde(_, _, _, _)
\* Lines 759-822: every list the loop can build from position i of the sorted
\* race numbers on (one per iteration order of the sets of common codes).
DiferenciasGenDesde(pdf, rep, carreras, i) ==
    IF i > Len(carreras) THEN {<< >>}
    ELSE {a \o b : a \in {DifCarreraGen(pdf, rep, carreras[i], o) :
                            o \in Ordenes(ApuestasComunesGen(pdf, rep, carreras[i]))},
                   b \in DiferenciasGenDesde(pdf, rep, carreras, i + 1)}

DiferenciasGen(pdf, rep) ==
    DiferenciasGenDesde(pdf, rep, Sorted(DOMAIN pdf \cup DOMAIN rep), 1)

(***************************************************************************)
(* Canonical structures the generic engine is run on.                      *)
(***************************************************************************)
CodigosGen == {"GAN", "EXA", "TRI"}

MapasApuestas(valores) == UNION {[C -> valores] : C \in SUBSET CodigosGen}

NumApuestas(d) ==
    LET RECURSIVE Suma(_)
        Suma(S) == IF S = {} THEN 0
                   ELSE LET n == Min(S) IN Cardinality(DOMAIN d[n].apuestas) + Suma(S \ {n})
    IN Suma(DOMAIN d)

Estructuras(caballos, mapas) ==
    LET todas == UNION {[S -> [caballos : caballos, apuestas : mapas]] : S \in SUBSET Carreras}
    IN  {d \in todas : NumApuestas(d) <= MaxApuestas}

\* _normalizar_desde_lista_apuestas stores any amount under any code.
EstructurasPdf == {d : d \in Estructuras(0..MaxCaballos, MapasApuestas(ValoresOpc))}

\* _normalizar_reporte never stores an amount for GAN, SEG or TER (mapeo_rsm
\* has no such key).
EstructurasReporte ==
    {d : d \in {e \in Estructuras(1..MaxCaballos, MapasApuestas(ValoresOpc)) :
        \A n \in DOMAIN e : \A c \in DOMAIN e[n].apuestas :
            c \in apuestas_sin_comparar_valor => e[n].apuestas[c] = NULL}}

InitGen ==
    /\ motor = "generico"
    /\ pc = "inicio"
    /\ datos_pdf \in EstructurasPdf
    /\ datos_reporte \in EstructurasReporte
    /\ fecha_objetivo = NULL
    /\ diferencias = << >>
    /\ coincide_todo = FALSE
    /\ datos_leidos = << >>
    /\ llamadas = 1
    /\ contenido = << >>
    /\ entrada = << >>
    /\ salida = << >>

\* Lines 754-825.
CompararPdfYReporte ==
    /\ motor = "generico"
    /\ pc = "inicio"
    /\ \E d \in DiferenciasGen(datos_pdf, datos_reporte) :
         /\ diferencias' = d
         /\ coincide_todo' = (Len(d) = 0)
    /\ pc' = "fin"
    /\ UNCHANGED <<motor, datos_pdf, datos_reporte, fecha_objetivo, datos_leidos, llamadas, contenido, entrada, salida>>

NextGen == CompararPdfYReporte

SpecGen == InitGen /\ [][NextGen]_vars

(***************************************************************************)
(* Dicts.                                                                  *)
(***************************************************************************)
DictVacio == [k \in {} |-> {}]

\* d[k] = v
Put(d, k, v) == [x \in DOMAIN d \cup {k} |-> IF x = k THEN v ELSE d[x]]

\* d.get(k, defecto)
Get(d, k, defecto) == IF k \in DOMAIN d THEN d[k] ELSE defecto

\* a.update(b)
Update(a, b) == [x \in DOMAIN a \cup DOMAIN b |-> IF x \in DOMAIN b THEN b[x] ELSE a[x]]

(***************************************************************************)
(* _mapear_nombre_apuesta_palermo.  A description is the set of the        *)
(* substrings tested by the function that its lower-cased text contains    *)
(* ("cuatrifecta" contains "trifecta", "doble extra" contains "doble").    *)
(***************************************************************************)
SinCodigo == ""

MapearNombreApuestaPalermo(descripcion) ==
    IF descripcion = {} THEN SinCodigo
    ELSE IF "cuatrifecta" \in descripcion THEN "CUA"
    ELSE IF "trifecta" \in descripcion THEN "TRI"
    ELSE IF "doble extra" \in descripcion THEN "DOB"
    ELSE IF "doble" \in descripcion THEN "DOB"
    ELSE IF {"5 y 6", "5y6", "5 & 6"} \cap descripcion # {} THEN "CAD"
    ELSE IF {"pick cuatro", "pick 4"} \cap descripcion # {} THEN "QTN"
    ELSE IF {"pick cinco", "pick 5"} \cap descripcion # {} THEN "QTP"
    ELSE IF "exacta" \in descripcion THEN "EXA"
    ELSE IF "triplo" \in descripcion THEN "TPL"
    ELSE IF "imperfecta" \in descripcion THEN "IMP"
    ELSE SinCodigo

(***************************************************************************)
(* _leer_palermo_desde_pdf.  A page is a sequence of non-blank lines; a    *)
(* line is [fechas, fila]: the date tokens patron_fecha finds on it, in    *)
(* order, and the row patron_fila matches on it (None, or << [descripcion, *)
(* monto, carreras] >> with monto the result of _parsear_monto_str and     *)
(* carreras the list _extraer_carreras_palermo returns).                   *)
(***************************************************************************)
RECURSIVE AgregarFechas(_, _, _)
\* Lines 944-946.
AgregarFechas(fechas_encontradas, fs, i) ==
    IF i > Len(fs) THEN fechas_encontradas
    ELSE AgregarFechas(
            IF \E j \in 1..Len(fechas_encontradas) : fechas_encontradas[j] = fs[i]
            THEN fechas_encontradas ELSE Append(fechas_encontradas, fs[i]),
            fs, i + 1)

RECURSIVE AsignarCarreras(_, _, _, _, _)
\* Lines 992-996, on the maps of the current date.
AsignarCarreras(ap, res, codigo_apuesta, valor, carreras) ==
    IF carreras = << >> THEN [ap |-> ap, res |-> res]
    ELSE LET carrera == Head(carreras)
             ap1 == IF carrera \notin DOMAIN ap THEN Put(ap, carrera, DictVacio) ELSE ap
             ap2 == Put(ap1, carrera, Put(ap1[carrera], codigo_apuesta, Algun(valor)))
             res2 == Put(res, codigo_apuesta,
                         [res[codigo_apuesta] EXCEPT !.carreras = @ \cup {carrera}])
         IN  AsignarCarreras(ap2, res2, codigo_apuesta, valor, Tail(carreras))

\* Lines 939-996: one line of a page.
LeerLinea(e, linea) ==
    LET fechas1 == AgregarFechas(e.fechas, linea.fechas, 1)
        fecha_actual == IF linea.fechas # << >>
                        THEN Algun(linea.fechas[Len(linea.fechas)])
                        ELSE e.fecha_actual
        e1 == [e EXCEPT !.fechas = fechas1, !.fecha_actual = fecha_actual]
    IN  IF linea.fila = NULL THEN e1
        ELSE IF fecha_actual = NULL THEN e1
        ELSE LET fila == linea.fila[1]
                 f == fecha_actual[1]
                 codigo_apuesta == MapearNombreApuestaPalermo(fila.descripcion)
             IN  IF codigo_apuesta = SinCodigo THEN e1
                 ELSE IF fila.monto = NULL THEN e1
                 ELSE IF fila.carreras = << >> THEN e1
                 ELSE LET valor == fila.monto[1]
                          ap == Get(e1.apuestas_por_fecha, f, DictVacio)
                          res == Get(e1.resumen_por_fecha, f, DictVacio)
                          info == Get(res, codigo_apuesta,
                                      [conteo_lineas |-> 0, valor |-> valor, carreras |-> {}])
                          res1 == Put(res, codigo_apuesta,
                                      [info EXCEPT !.conteo_lineas = @ + 1, !.valor = valor])
                          r == AsignarCarreras(ap, res1, codigo_apuesta, valor, fila.carreras)
                      IN  [e1 EXCEPT !.apuestas_por_fecha = Put(@, f, r.ap),
                                     !.resumen_por_fecha = Put(@, f, r.res)]

RECURSIVE LeerLineas(_, _, _)
LeerLineas(e, lineas, i) ==
    IF i > Len(lineas) THEN e ELSE LeerLineas(LeerLinea(e, lineas[i]), lineas, i + 1)

RECURSIVE LeerPaginas(_, _, _)
\* Lines 932-996: fecha_actual starts as None on every page.
LeerPaginas(e, paginas, p) ==
    IF p > Len(paginas) THEN e
    ELSE LeerPaginas(LeerLineas([e EXCEPT !.fecha_actual = NULL], paginas[p], 1), paginas, p + 1)

\* Lines 902-1002.
LeerPalermoDesdePdf(paginas) ==
    LET e == LeerPaginas([fechas |-> << >>, apuestas_por_fecha |-> DictVacio,
                          resumen_por_fecha |-> DictVacio, fecha_actual |-> NULL],
                         paginas, 1)
    IN  [fechas |-> e.fechas, apuestas_por_fecha |-> e.apuestas_por_fecha,
         resumen_por_fecha |-> e.resumen_por_fecha]

(***************************************************************************)
(* comparar_palermo                                                        *)
(***************************************************************************)
codigos_all_si_unica == {"EXA", "TRI"}

RECURSIVE CombinarCarreras(_, _, _)
\* Lines 1031-1034, for the per-race maps of one date.
CombinarCarreras(apuestas_pdf, apuestas_carreras, pendientes) ==
    IF pendientes = {} THEN apuestas_pdf
    ELSE LET carrera == Min(pendientes)
             previo == Get(apuestas_pdf, carrera, DictVacio)
         IN  CombinarCarreras(Put(apuestas_pdf, carrera, Update(previo, apuestas_carreras[carrera])),
                              apuestas_carreras, pendientes \ {carrera})

\* Lines 1028-1034: the dates are visited in the insertion order of the dict.
RECURSIVE CombinarFechas(_, _, _, _)
CombinarFechas(apuestas_pdf, apuestas_por_fecha, orden, i) ==
    IF i > Len(orden) THEN apuestas_pdf
    ELSE CombinarFechas(
            CombinarCarreras(apuestas_pdf, apuestas_por_fecha[orden[i]],
                             DOMAIN apuestas_por_fecha[orden[i]]),
            apuestas_por_fecha, orden, i + 1)

\* The keys of apuestas_por_fecha in insertion order: the dates of `fechas`
\* under which a row was stored.
FechasConApuestas(datos) ==
    SelectSeq(datos.fechas, LAMBDA f : f \in DOMAIN datos.apuestas_por_fecha)

\* Lines 1028-1036: the dict the name apuestas_pdf is bound to.
ApuestasPdfInicial(datos, fecha) ==
    IF fecha = NULL
    THEN CombinarFechas(DictVacio, datos.apuestas_por_fecha, FechasConApuestas(datos), 1)
    ELSE Get(datos.apuestas_por_fecha, fecha[1], DictVacio)

\* Lines 1057-1062 for one code: every race of the report gets the code.
CompletarCodigo(apuestas_pdf, rep, codigo, valor) ==
    [carrera \in DOMAIN apuestas_pdf \cup DOMAIN rep |->
        IF carrera \notin DOMAIN rep THEN apuestas_pdf[carrera]
        ELSE LET previo == Get(apuestas_pdf, carrera, DictVacio)
             IN  IF codigo \notin DOMAIN previo THEN Put(previo, codigo, valor) ELSE previo]

\* CompletarCodigos without the test of the line count.
RECURSIVE CompletarCodigos_SinConteo(_, _, _, _)
CompletarCodigos_SinConteo(apuestas_pdf, rep, resumen_fecha, codigos) ==
    IF codigos = {} THEN apuestas_pdf
    ELSE LET codigo == CHOOSE c \in codigos : TRUE
             resto == codigos \ {codigo}
         IN  IF codigo \notin DOMAIN resumen_fecha
             THEN CompletarCodigos_SinConteo(apuestas_pdf, rep, resumen_fecha, resto)
             ELSE CompletarCodigos_SinConteo(
                    CompletarCodigo(apuestas_pdf, rep, codigo, Algun(resumen_fecha[codigo].valor)),
                    rep, resumen_fecha, resto)

RECURSIVE CompletarCodigos(_, _, _, _)
\* Lines 1048-1062.
CompletarCodigos(apuestas_pdf, rep, resumen_fecha, codigos) ==
    IF codigos = {} THEN apuestas_pdf
    ELSE LET codigo == CHOOSE c \in codigos : TRUE
             resto == codigos \ {codigo}
         IN  IF codigo \notin DOMAIN resumen_fecha
             THEN CompletarCodigos(apuestas_pdf, rep, resumen_fecha, resto)
             ELSE IF resumen_fecha[codigo].conteo_lineas # 1
             THEN CompletarCodigos(apuestas_pdf, rep, resumen_fecha, resto)
             ELSE CompletarCodigos(
                    CompletarCodigo(apuestas_pdf, rep, codigo, Algun(resumen_fecha[codigo].valor)),
                    rep, resumen_fecha, resto)

\* Lines 1045-1062: apuestas_pdf after the completion rule.
Completar(datos, rep, fecha, apuestas_pdf) ==
    IF fecha = NULL THEN apuestas_pdf
    ELSE CompletarCodigos(apuestas_pdf, rep, Get(datos.resumen_por_fecha, fecha[1], DictVacio),
                          codigos_all_si_unica)

\* Lines 1036 and 1057-1062: with a selected date that is a key of
\* apuestas_por_fecha, apuestas_pdf IS the dict stored under that date, so
\* what the completion rule writes into it is written into datos_pdf.
DatosPdfTrasLlamada(datos, rep, fecha) ==
    IF fecha # NULL /\ fecha[1] \in DOMAIN datos.apuestas_por_fecha
    THEN [datos EXCEPT !.apuestas_por_fecha[fecha[1]] =
            Completar(datos, rep, fecha, ApuestasPdfInicial(datos, fecha))]
    ELSE datos

\* Lines 1100-1121: the body of the loop over the common codes, for one code.
DifValorPal(n, codigo, valor_pdf, valor_rep) ==
    IF valor_pdf = NULL /\ valor_rep = NULL THEN << >>
    ELSE IF valor_pdf = NULL /\ valor_rep # NULL
    THEN << Msg(n, "PdfNull", {codigo}, NULL, valor_rep) >>
    ELSE IF valor_pdf # NULL /\ valor_rep = NULL
    THEN << Msg(n, "ReporteNull", {codigo}, valor_pdf, NULL) >>
    ELSE IF Abs(valor_pdf[1] - valor_rep[1]) > Tolerancia
    THEN << Msg(n, "ValorDiferente", {codigo}, valor_pdf, valor_rep) >>
    ELSE << >>

RECURSIVE DifValoresPal(_, _, _, _, _)
\* Lines 1100-1121: the loop over codigos_comunes, iterated in the order `orden`.
DifValoresPal(apuestas_pdf, rep, n, orden, i) ==
    IF i > Len(orden) THEN << >>
    ELSE DifValorPal(n, orden[i], apuestas_pdf[n][orden[i]], rep[n][orden[i]])
         \o DifValoresPal(apuestas_pdf, rep, n, orden, i + 1)

CodigosComunesPal(apuestas_pdf, rep, n) ==
    IF n \in DOMAIN apuestas_pdf /\ n \in DOMAIN rep
    THEN DOMAIN apuestas_pdf[n] \cap DOMAIN rep[n]
    ELSE {}

\* DifCarreraPal with the two presence messages exchanged.
DifCarreraPal_LadoCambiado(apuestas_pdf, rep, n, orden) ==
    IF n \notin DOMAIN apuestas_pdf
    THEN << Msg(n, "CarreraSoloEnPdf", {}, NULL, NULL) >>
    ELSE IF n \notin DOMAIN rep
    THEN << Msg(n, "CarreraSoloEnReporte", {}, NULL, NULL) >>
    ELSE LET codigos_pdf == DOMAIN apuestas_pdf[n]
             codigos_rep == DOMAIN rep[n]
             solo_en_pdf == codigos_pdf \ codigos_rep
             solo_en_reporte == codigos_rep \ codigos_pdf
         IN  (IF solo_en_pdf # {}
              THEN << Msg(n, "ApuestasSoloEnPdf", solo_en_pdf, NULL, NULL) >>
              ELSE << >>)
             \o (IF solo_en_reporte # {}
                 THEN << Msg(n, "ApuestasSoloEnReporte", solo_en_reporte, NULL, NULL) >>
                 ELSE << >>)
             \o DifValoresPal(apuestas_pdf, rep, n, orden, 1)

\* Lines 1068-1121: one iteration of the loop over the sorted race numbers.
DifCarreraPal(apuestas_pdf, rep, n, orden) ==
    IF n \notin DOMAIN apuestas_pdf
    THEN << Msg(n, "CarreraSoloEnReporte", {}, NULL, NULL) >>
    ELSE IF n \notin DOMAIN rep
    THEN << Msg(n, "CarreraSoloEnPdf", {}, NULL, NULL) >>
    ELSE LET codigos_pdf == DOMAIN apuestas_pdf[n]
             codigos_rep == DOMAIN rep[n]
             solo_en_pdf == codigos_pdf \ codigos_rep
             solo_en_reporte == codigos_rep \ codigos_pdf
         IN  (IF solo_en_pdf # {}
              THEN << Msg(n, "ApuestasSoloEnPdf", solo_en_pdf, NULL, NULL) >>
              ELSE << >>)
             \o (IF solo_en_reporte # {}
                 THEN << Msg(n, "ApuestasSoloEnReporte", solo_en_reporte, NULL, NULL) >>
                 ELSE << >>)
             \o DifValoresPal(apuestas_pdf, rep, n, orden, 1)

RECURSIVE DiferenciasPalDesde(_, _, _, _)
\* Lines 1064-1121: every list the loop can build from position i on.
DiferenciasPalDesde(apuestas_pdf, rep, carreras, i) ==
    IF i > Len(carreras) THEN {<< >>}
    ELSE {a \o b : a \in {DifCarreraPal(apuestas_pdf, rep, carreras[i], o) :
                            o \in Ordenes(CodigosComunesPal(apuestas_pdf, rep, carreras[i]))},
                   b \in DiferenciasPalDesde(apuestas_pdf, rep, carreras, i + 1)}

\* Lines 1023-1121: the lists comparar_palermo can return.
DiferenciasPal(datos, rep, fecha) ==
    LET apuestas_pdf == Completar(datos, rep, fecha, ApuestasPdfInicial(datos, fecha))
    IN  DiferenciasPalDesde(apuestas_pdf, rep, Sorted(DOMAIN apuestas_pdf \cup DOMAIN rep), 1)

(***************************************************************************)
(* Inputs comparar_palermo is run on.                                      *)
(***************************************************************************)
FechasModelo == {"01/02/2026"}

MontoPdfPal == CHOOSE v \in Montos : \A w \in Montos : v <= w

LineasPal ==
    {[fechas |-> << f >>, fila |-> NULL] : f \in FechasModelo}
    \cup {[fechas |-> << >>,
           fila |-> << [descripcion |-> d, monto |-> Algun(MontoPdfPal), carreras |-> cs] >>] :
             d \in {{"exacta"}, {"imperfecta"}}, cs \in {<< 1 >>, << 1, 2 >>}}

SecuenciasHasta(S, n) == UNION {[1..k -> S] : k \in 0..n}

\* What _leer_palermo_desde_pdf returns for the one-page documents of at
\* most MaxLineas lines.
DatosPal == {LeerPalermoDesdePdf(<< p >>) : p \in SecuenciasHasta(LineasPal, MaxLineas)}

CodigosPal == {"EXA", "IMP"}

NumApuestasPal(d) ==
    LET RECURSIVE Suma(_)
        Suma(S) == IF S = {} THEN 0
                   ELSE LET n == Min(S) IN Cardinality(DOMAIN d[n]) + Suma(S \ {n})
    IN Suma(DOMAIN d)

\* _normalizar_reporte_palermo: a race is a key only if a row gave it an amount.
ReportesPal ==
    LET mapas == UNION {[C -> {Algun(v) : v \in Montos}] : C \in (SUBSET CodigosPal) \ {{}}}
        todas == UNION {[S -> mapas] : S \in SUBSET Carreras}
    IN  {d : d \in {e \in todas : NumApuestasPal(e) <= MaxApuestas}}

InitPal ==
    /\ motor = "palermo"
    /\ pc = "inicio"
    /\ datos_pdf \in DatosPal
    /\ datos_leidos = datos_pdf
    /\ datos_reporte \in ReportesPal
    /\ fecha_objetivo \in {NULL} \cup {Algun(f) : f \in FechasModelo}
    /\ diferencias = << >>
    /\ coincide_todo = FALSE
    /\ llamadas = 1
    /\ contenido = << >>
    /\ entrada = << >>
    /\ salida = << >>

\* Lines 1020-1124.
CompararPalermo ==
    /\ motor = "palermo"
    /\ pc = "inicio"
    /\ \E d \in DiferenciasPal(datos_pdf, datos_reporte, fecha_objetivo) :
         /\ diferencias' = d
         /\ coincide_todo' = (Len(d) = 0)
    /\ datos_pdf' = DatosPdfTrasLlamada(datos_pdf, datos_reporte, fecha_objetivo)
    /\ pc' = "fin"
    /\ UNCHANGED <<motor, datos_reporte, fecha_objetivo, datos_leidos, llamadas, contenido, entrada, salida>>

\* The caller compares the same datos_pdf object, for the same date, with
\* the report of another path.
OtraLlamada ==
    /\ motor = "palermo"
    /\ pc = "fin"
    /\ llamadas < MaxLlamadas
    /\ llamadas' = llamadas + 1
    /\ datos_reporte' \in ReportesPal
    /\ pc' = "inicio"
    /\ diferencias' = << >>
    /\ coincide_todo' = FALSE
    /\ UNCHANGED <<motor, datos_pdf, fecha_objetivo, datos_leidos, contenido, entrada, salida>>

NextPal == CompararPalermo \/ OtraLlamada

SpecPal == InitPal /\ [][NextPal]_vars

(***************************************************************************)
(* _normalizar_reporte (lines 389-558).                                    *)
(*                                                                         *)
(* contenido is what the function's patterns find in the report's text:    *)
(*   lineas         : the lines of contenido.split("\n"), each a record    *)
(*       carrera  - patron_carrera matches it (a race row)                 *)
(*       num      - int(m.group(1)) of a race row                          *)
(*       marcas   - number of "1/9" on it, scr - number of "SCR" on it     *)
(*       codigos  - set(patron_apuestas_linea.findall(line))               *)
(*       blanca   - line.strip() is empty                                  *)
(*       sangria  - it starts with a space or a tab                        *)
(*       numero   - it matches ^\s*\d+\s+                                  *)
(*   filas_rsm      : the matches of patron_rsm in the delimited section,  *)
(*                    none when the section marker is absent; each is      *)
(*                    [race_map, tipo_rsm, valor] with valor the optional  *)
(*                    result of _parsear_monto_str                         *)
(*   valores_default: the dict pass 3 builds from the defaults section     *)
(* A race_map is [todas |-> it reads "ALL", partes |-> its comma-separated *)
(* parts], each part the sequence of its hyphen-separated pieces, a piece  *)
(* being Algun(n) when int() accepts it and NULL when it raises, and       *)
(* entero |-> the optional result of int() on the whole text].             *)
(***************************************************************************)
max_lineas_siguientes == 15

RangoLista_FinExcluido(inicio, fin) ==
    IF fin <= inicio THEN << >> ELSE [k \in 1..(fin - inicio) |-> inicio + k - 1]

\* range(inicio, fin + 1) as a list.
RangoLista(inicio, fin) ==
    IF fin < inicio THEN << >> ELSE [k \in 1..(fin - inicio + 1) |-> inicio + k - 1]

\* Lines 685-705: one part of a comma-separated list.
ExpandirParte(parte) ==
    IF parte = << >> THEN << >>
    ELSE IF Len(parte) > 1
         THEN IF Len(parte) = 2 /\ parte[1] # NULL /\ parte[2] # NULL
              THEN RangoLista(parte[1][1], parte[2][1])
              ELSE << >>
         ELSE IF parte[1] # NULL THEN << parte[1][1] >> ELSE << >>

RECURSIVE ExpandirPartes_CortaEnFallo(_, _)
ExpandirPartes_CortaEnFallo(partes, i) ==
    IF i > Len(partes) THEN << >>
    ELSE IF partes[i] # << >> /\ ExpandirParte(partes[i]) = << >> THEN << >>
    ELSE ExpandirParte(partes[i]) \o ExpandirPartes_CortaEnFallo(partes, i + 1)

RECURSIVE ExpandirPartes(_, _)
ExpandirPartes(partes, i) ==
    IF i > Len(partes) THEN << >>
    ELSE ExpandirParte(partes[i]) \o ExpandirPartes(partes, i + 1)

\* Lines 662-723.
ExpandirRaceMap(race_map) ==
    IF race_map.todas THEN RangoLista(1, 15)
    ELSE IF Len(race_map.partes) > 1 THEN ExpandirPartes(race_map.partes, 1)
    ELSE LET unica == race_map.partes[1] IN
         IF Len(unica) = 2 /\ unica[1] # NULL /\ unica[2] # NULL
         THEN RangoLista(unica[1][1], unica[2][1])
         ELSE IF race_map.entero # NULL THEN << race_map.entero[1] >>
         ELSE << >>

\* Lines 433-449: the codes of the lines that continue the race row at i,
\* scanned from line j.
RECURSIVE ApuestasAdicionales(_, _, _)
ApuestasAdicionales(lineas, i, j) ==
    IF ~(j <= Len(lineas) /\ (j - (i + 1)) < max_lineas_siguientes) THEN {}
    ELSE IF lineas[j].blanca THEN {}
    ELSE IF ~lineas[j].sangria THEN {}
    ELSE IF lineas[j].numero THEN {}
    ELSE lineas[j].codigos \cup ApuestasAdicionales(lineas, i, j + 1)

\* Lines 415-450: e = [caballos_por_carrera, apuestas_por_carrera].
RECURSIVE PasadaDisponibilidad(_, _, _)
PasadaDisponibilidad(lineas, i, e) ==
    IF i > Len(lineas) THEN e
    ELSE IF ~lineas[i].carrera THEN PasadaDisponibilidad(lineas, i + 1, e)
    ELSE LET linea == lineas[i]
             previas == Get(e.apuestas_por_carrera, linea.num, {})
         IN  PasadaDisponibilidad(lineas, i + 1,
                 [caballos_por_carrera |->
                      Put(e.caballos_por_carrera, linea.num, linea.marcas + linea.scr),
                  apuestas_por_carrera |->
                      Put(e.apuestas_por_carrera, linea.num,
                          previas \cup linea.codigos
                                  \cup ApuestasAdicionales(lineas, i, i + 1))])

\* Lines 481-492: mapeo_rsm.get(tipo_rsm), SinCodigo for None and for a miss.
mapeo_rsm(tipo_rsm) ==
    IF tipo_rsm \in {"EXA", "TRI", "IMP", "DOB", "TPL", "QTN", "QTP", "CAD", "CUA"}
    THEN tipo_rsm ELSE SinCodigo

\* Lines 512-515.
CarrerasDeFila(race_map, carreras_reales_reporte) ==
    IF race_map.todas
    THEN IF carreras_reales_reporte # << >> THEN carreras_reales_reporte
         ELSE ExpandirRaceMap(race_map)
    ELSE ExpandirRaceMap(race_map)

EnLista(x, lista) == \E k \in 1..Len(lista) : lista[k] = x

\* Lines 518-523.
RECURSIVE AsignarValor(_, _, _, _, _, _)
AsignarValor(valores, carreras, k, reales, codigo, valor) ==
    IF k > Len(carreras) THEN valores
    ELSE IF reales # << >> /\ ~EnLista(carreras[k], reales)
         THEN AsignarValor(valores, carreras, k + 1, reales, codigo, valor)
         ELSE AsignarValor(
                  Put(valores, carreras[k],
                      Put(Get(valores, carreras[k], DictVacio), codigo, valor)),
                  carreras, k + 1, reales, codigo, valor)

\* Lines 497-523: valores_por_carrera after the rows from i on.
RECURSIVE PasadaRsm(_, _, _, _)
PasadaRsm(filas, i, reales, valores) ==
    IF i > Len(filas) THEN valores
    ELSE LET fila == filas[i]
             codigo_apuesta == mapeo_rsm(fila.tipo_rsm)
         IN  IF fila.valor = NULL THEN PasadaRsm(filas, i + 1, reales, valores)
             ELSE IF codigo_apuesta = SinCodigo
                  THEN PasadaRsm(filas, i + 1, reales, valores)
             ELSE PasadaRsm(filas, i + 1, reales,
                      AsignarValor(valores, CarrerasDeFila(fila.race_map, reales), 1,
                                   reales, codigo_apuesta, fila.valor[1]))

\* Lines 551-556: the amount of one code of one race.
ValorFinal_ConDefault(codigo, valores_carrera, valores_default) ==
    IF codigo \in DOMAIN valores_carrera THEN Algun(valores_carrera[codigo])
    ELSE IF codigo \in DOMAIN valores_default THEN Algun(valores_default[codigo])
    ELSE NULL

ValorFinal(codigo, valores_carrera, valores_default) ==
    IF codigo \in DOMAIN valores_carrera THEN Algun(valores_carrera[codigo])
    ELSE NULL

\* Lines 539-541.
TodasLasCarreras_ConValores(caballos_por_carrera, apuestas_por_carrera, valores_por_carrera) ==
    DOMAIN caballos_por_carrera \cup DOMAIN apuestas_por_carrera
        \cup DOMAIN valores_por_carrera

TodasLasCarreras(caballos_por_carrera, apuestas_por_carrera, valores_por_carrera) ==
    DOMAIN caballos_por_carrera \cup DOMAIN apuestas_por_carrera

\* Lines 401-558.
NormalizarReporte(c) ==
    LET disp == PasadaDisponibilidad(c.lineas, 1,
                    [caballos_por_carrera |-> DictVacio, apuestas_por_carrera |-> DictVacio])
        caballos_por_carrera == disp.caballos_por_carrera
        apuestas_por_carrera == disp.apuestas_por_carrera
        carreras_reales_reporte == Sorted(DOMAIN caballos_por_carrera)
        valores_por_carrera == PasadaRsm(c.filas_rsm, 1, carreras_reales_reporte, DictVacio)
        todas_las_carreras ==
            TodasLasCarreras(caballos_por_carrera, apuestas_por_carrera, valores_por_carrera)
    IN  [num_carrera \in todas_las_carreras |->
            LET apuestas_carrera == Get(apuestas_por_carrera, num_carrera, {})
                valores_carrera == Get(valores_por_carrera, num_carrera, DictVacio)
            IN  [caballos |-> Get(caballos_por_carrera, num_carrera, 0),
                 apuestas |-> [codigo \in apuestas_carrera |->
                                  ValorFinal(codigo, valores_carrera, c.valores_default)]]]

\* The reports explored: race rows (one of them a second row of race 1, with
\* a scratched horse), continuation lines with and without codes, a line
\* that is not indented, a blank line and a numbered line that is no race row.
LineaCarrera(num, codigos, marcas, scr) ==
    [carrera |-> TRUE, num |-> num, marcas |-> marcas, scr |-> scr, codigos |-> codigos,
     blanca |-> FALSE, sangria |-> FALSE, numero |-> TRUE]

LineaTexto(codigos, sangria, numero) ==
    [carrera |-> FALSE, num |-> 0, marcas |-> 0, scr |-> 0, codigos |-> codigos,
     blanca |-> FALSE, sangria |-> sangria, numero |-> numero]

LineaBlanca ==
    [carrera |-> FALSE, num |-> 0, marcas |-> 0, scr |-> 0, codigos |-> {},
     blanca |-> TRUE, sangria |-> FALSE, numero |-> FALSE]

LineasReporte ==
    {LineaCarrera(1, {"GAN", "EXA"}, MaxCaballos, 0),
     LineaCarrera(1, {}, MaxCaballos, 1),
     LineaBlanca,
     LineaTexto({"TRI"}, TRUE, FALSE),
     LineaTexto({}, TRUE, FALSE),
     LineaTexto({"TRI"}, FALSE, FALSE),
     LineaTexto({"TRI"}, TRUE, TRUE)}
    \cup {LineaCarrera(n, {"EXA"}, MaxCaballos, 0) : n \in 2..MaxCarrera}

\* "ALL", "n", "a,b" and "a-b" as race maps.
MapaTodas == [todas |-> TRUE, partes |-> << << NULL >> >>, entero |-> NULL]
MapaUna(n) == [todas |-> FALSE, partes |-> << << Algun(n) >> >>, entero |-> Algun(n)]
MapaLista(a, b) ==
    [todas |-> FALSE, partes |-> << << Algun(a) >>, << Algun(b) >> >>, entero |-> NULL]
MapaRango(a, b) ==
    [todas |-> FALSE, partes |-> << << Algun(a), Algun(b) >> >>, entero |-> NULL]

FilaRsm(race_map, tipo_rsm, valor) ==
    [race_map |-> race_map, tipo_rsm |-> tipo_rsm, valor |-> valor]

FilasRsm ==
    {FilaRsm(MapaTodas, "EXA", Algun(1000000)),
     FilaRsm(MapaUna(1), "TRI", Algun(1000010)),
     FilaRsm(MapaUna(1), "EXA", Algun(1000010)),
     FilaRsm(MapaLista(MaxCarrera, MaxCarrera + 1), "EXA", Algun(1000021)),
     FilaRsm(MapaRango(1, MaxCarrera), "WPS", Algun(1000000)),
     FilaRsm(MapaRango(1, MaxCarrera), "EXA", NULL)}

\* The defaults section is absent, or gives every code one amount that no
\* stakes row carries.
ValoresDefault ==
    {DictVacio, [codigo \in {"GAN", "EXA", "TRI"} |-> 500000]}

Contenidos ==
    {[lineas |-> l, filas_rsm |-> f, valores_default |-> d] :
        l \in SecuenciasHasta(LineasReporte, MaxLineas),
        f \in SecuenciasHasta(FilasRsm, MaxFilas),
        d \in ValoresDefault}

InitReporte ==
    /\ motor = "reporte"
    /\ pc = "inicio"
    /\ contenido \in Contenidos
    /\ datos_pdf = << >>
    /\ datos_reporte = << >>
    /\ fecha_objetivo = NULL
    /\ diferencias = << >>
    /\ coincide_todo = FALSE
    /\ datos_leidos = << >>
    /\ llamadas = 1
    /\ entrada = << >>
    /\ salida = << >>

\* Lines 389-558.
LeerReporte ==
    /\ motor = "reporte"
    /\ pc = "inicio"
    /\ datos_reporte' = NormalizarReporte(contenido)
    /\ pc' = "fin"
    /\ UNCHANGED <<motor, datos_pdf, fecha_objetivo, diferencias, coincide_todo,
                   datos_leidos, llamadas, contenido, entrada, salida>>

SpecReporte == InitReporte /\ [][LeerReporte]_vars

(***************************************************************************)
(* The report reader and both reconciliation engines.                      *)
(***************************************************************************)
Init == InitGen \/ InitPal \/ InitReporte

Next == CompararPdfYReporte \/ CompararPalermo \/ OtraLlamada \/ LeerReporte

Spec == Init /\ [][Next]_vars

(***************************************************************************)
(* Text.  A Python str is the sequence of its characters, each a string of *)
(* length one; the methods the program calls on it are computed character  *)
(* by character.                                                           *)
(***************************************************************************)
Mayusculas ==
    << "A", "B", "C", "D", "E", "F", "G", "H", "I", "J", "K", "L", "M",
       "N", "O", "P", "Q", "R", "S", "T", "U", "V", "W", "X", "Y", "Z" >>

Minusculas ==
    << "a", "b", "c", "d", "e", "f", "g", "h", "i", "j", "k", "l", "m",
       "n", "o", "p", "q", "r", "s", "t", "u", "v", "w", "x", "y", "z" >>

Digitos == << "0", "1", "2", "3", "4", "5", "6", "7", "8", "9" >>

EsMayuscula(c) == \E k \in 1..Len(Mayusculas) : Mayusculas[k] = c
EsMinuscula(c) == \E k \in 1..Len(Minusculas) : Minusculas[k] = c
EsDigito(c) == \E k \in 1..Len(Digitos) : Digitos[k] = c

\* The value of a decimal digit.
ValorDigito(c) == (CHOOSE k \in 1..Len(Digitos) : Digitos[k] = c) - 1

\* \s of the patterns and the characters str.strip() and str.split() remove.
EsBlanco(c) == c \in {" ", "\t"}

\* \w of the patterns.
EsPalabra(c) == EsMayuscula(c) \/ EsMinuscula(c) \/ EsDigito(c) \/ c = "_"

\* str.lower() and str.upper() on one character.
LowerC(c) ==
    IF EsMayuscula(c) THEN Minusculas[CHOOSE k \in 1..Len(Mayusculas) : Mayusculas[k] = c]
    ELSE c

UpperC(c) ==
    IF EsMinuscula(c) THEN Mayusculas[CHOOSE k \in 1..Len(Minusculas) : Minusculas[k] = c]
    ELSE c

Lower(s) == [k \in 1..Len(s) |-> LowerC(s[k])]
Upper(s) == [k \in 1..Len(s) |-> UpperC(s[k])]

\* str.strip().
RECURSIVE LStrip(_)
LStrip(s) == IF s # << >> /\ EsBlanco(Head(s)) THEN LStrip(Tail(s)) ELSE s

RECURSIVE RStrip(_)
RStrip(s) ==
    IF s # << >> /\ EsBlanco(s[Len(s)]) THEN RStrip(SubSeq(s, 1, Len(s) - 1)) ELSE s

Strip(s) == RStrip(LStrip(s))

\* s[i:] begins with t.
EmpiezaEn(s, i, t) ==
    /\ i >= 1
    /\ i + Len(t) - 1 <= Len(s)
    /\ \A k \in 1..Len(t) : s[i + k - 1] = t[k]

\* str.startswith(t) and the operator `t in s`.
StartsWith(s, t) == EmpiezaEn(s, 1, t)
Contiene(s, t) == \E i \in 1..(Len(s) + 1) : EmpiezaEn(s, i, t)

\* str.split(sep) for a separator of one character: the list of the pieces.
RECURSIVE SplitSep(_, _)
SplitSep(s, sep) ==
    IF \A k \in 1..Len(s) : s[k] # sep THEN << s >>
    ELSE LET i == CHOOSE k \in 1..Len(s) : s[k] = sep /\ \A j \in 1..(k - 1) : s[j] # sep
         IN  << SubSeq(s, 1, i - 1) >> \o SplitSep(SubSeq(s, i + 1, Len(s)), sep)

\* str.split() without argument: the words between runs of blanks.
RECURSIVE SplitBlancos(_)
SplitBlancos(s) ==
    LET t == LStrip(s) IN
    IF t = << >> THEN << >>
    ELSE LET n == IF \A k \in 1..Len(t) : ~EsBlanco(t[k]) THEN Len(t)
                  ELSE (CHOOSE k \in 1..Len(t) :
                            EsBlanco(t[k]) /\ \A j \in 1..(k - 1) : ~EsBlanco(t[j])) - 1
         IN  << SubSeq(t, 1, n) >> \o SplitBlancos(SubSeq(t, n + 1, Len(t)))

\* The str of a character sequence, as a key of a dict.
RECURSIVE Texto(_)
Texto(s) == IF s = << >> THEN "" ELSE Head(s) \o Texto(Tail(s))

\* The text of one or several pieces.
RECURSIVE Unir(_)
Unir(piezas) == IF piezas = << >> THEN << >> ELSE Head(piezas) \o Unir(Tail(piezas))

(***************************************************************************)
(* es_apuesta_excluida (lines 83-109).  The patterns are compiled with     *)
(* re.IGNORECASE, so they are matched on the lower-cased text.             *)
(***************************************************************************)
\* The position after the blanks of s from position i on (\s*).
RECURSIVE TrasBlancos(_, _)
TrasBlancos(s, i) ==
    IF i <= Len(s) /\ EsBlanco(s[i]) THEN TrasBlancos(s, i + 1) ELSE i

\* \.? at position i.
TrasPunto(s, i) == IF i <= Len(s) /\ s[i] = "." THEN i + 1 ELSE i

\* \b at position i, between s[i-1] and s[i].
Frontera(s, i) ==
    (i > 1 /\ i - 1 <= Len(s) /\ EsPalabra(s[i - 1])) # (i >= 1 /\ i <= Len(s) /\ EsPalabra(s[i]))

pase == << "p", "a", "s", "e" >>

\* <ordinal>\.?\s*pase matches at position i; the position after the match, 0 if none.
OrdinalPase(s, i, ordinal) ==
    IF ~EmpiezaEn(s, i, ordinal) THEN 0
    ELSE LET j == TrasBlancos(s, TrasPunto(s, i + Len(ordinal)))
         IN  IF EmpiezaEn(s, j, pase) THEN j + Len(pase) ELSE 0

\* <palabra>\s*pase matches at position i; the position after the match, 0 if none.
PalabraPase(s, i, palabra) ==
    IF ~EmpiezaEn(s, i, palabra) THEN 0
    ELSE LET j == TrasBlancos(s, i + Len(palabra))
         IN  IF EmpiezaEn(s, j, pase) THEN j + Len(pase) ELSE 0

PATRON_EXCLUIR_PASE_SinUltimo(nombre) ==
    LET s == Lower(nombre) IN
    \E i \in 1..Len(s) :
        \E ordinal \in {<< "2", "d", "o" >>, << "3", "e", "r" >>,
                        << "4", "t", "o" >>, << "5", "t", "o" >>} :
            OrdinalPase(s, i, ordinal) # 0

\* Lines 83-86: _PATRON_EXCLUIR_PASE_SIN_FINAL.search(nombre).
PATRON_EXCLUIR_PASE_SIN_FINAL(nombre) ==
    LET s == Lower(nombre) IN
    \E i \in 1..Len(s) :
        \/ \E ordinal \in {<< "2", "d", "o" >>, << "3", "e", "r" >>,
                           << "4", "t", "o" >>, << "5", "t", "o" >>} :
              OrdinalPase(s, i, ordinal) # 0
        \/ PalabraPase(s, i, << "u", "l", "t", "i", "m", "o" >>) # 0

final == << "f", "i", "n", "a", "l" >>

\* Line 87: _PATRON_FINAL.search(nombre).
PATRON_FINAL(nombre) ==
    LET s == Lower(nombre) IN
    \E i \in 1..Len(s) :
        \/ EmpiezaEn(s, i, final) /\ Frontera(s, i) /\ Frontera(s, i + Len(final))
        \/ PalabraPase(s, i, final) # 0

\* Line 88: _PATRON_PRIMER_PASE.search(nombre).
PATRON_PRIMER_PASE(nombre) ==
    LET s == Lower(nombre) IN
    \E i \in 1..Len(s) : \E ordinal \in {<< "1", "e", "r" >>, << "1", "r", "e" >>} :
        /\ Frontera(s, i)
        /\ OrdinalPase(s, i, ordinal) # 0
        /\ Frontera(s, OrdinalPase(s, i, ordinal))

doble == << "d", "o", "b", "l", "e" >>

EsApuestaExcluida_DobleSinLower(nombre) ==
    IF nombre = << >> THEN FALSE
    ELSE IF StartsWith(Strip(nombre), << "D", "o", "b", "l", "e" >>) THEN FALSE
    ELSE IF PATRON_EXCLUIR_PASE_SIN_FINAL(nombre) THEN TRUE
    ELSE IF PATRON_FINAL(nombre)
         THEN IF PATRON_PRIMER_PASE(nombre) THEN FALSE ELSE TRUE
    ELSE FALSE

EsApuestaExcluida_SinPrimerPase(nombre) ==
    IF nombre = << >> THEN FALSE
    ELSE IF StartsWith(Lower(Strip(nombre)), doble) THEN FALSE
    ELSE IF PATRON_EXCLUIR_PASE_SIN_FINAL(nombre) THEN TRUE
    ELSE IF PATRON_FINAL(nombre) THEN TRUE
    ELSE FALSE

\* Lines 91-109.
EsApuestaExcluida(nombre) ==
    IF nombre = << >> THEN FALSE
    ELSE IF StartsWith(Lower(Strip(nombre)), doble) THEN FALSE
    ELSE IF PATRON_EXCLUIR_PASE_SIN_FINAL(nombre) THEN TRUE
    ELSE IF PATRON_FINAL(nombre)
         THEN IF PATRON_PRIMER_PASE(nombre) THEN FALSE ELSE TRUE
    ELSE FALSE

(***************************************************************************)
(* normalizar_nombre_apuesta and abreviar_apuesta (lines 113-169).         *)
(***************************************************************************)
\* Lines 113-126: the keys are the str of the family names.
MAPEO_ABREVIATURAS ==
    [familia \in {"ganador", "segundo", "tercero", "exacta", "trifecta", "imperfecta", "cuatrifecta", "doble", "triplo", "cuaterna", "quintuplo", "cadena"} |->
        CASE familia = "ganador" -> << "G", "A", "N" >>
          [] familia = "segundo" -> << "S", "E", "G" >>
          [] familia = "tercero" -> << "T", "E", "R" >>
          [] familia = "exacta" -> << "E", "X", "A" >>
          [] familia = "trifecta" -> << "T", "R", "I" >>
          [] familia = "imperfecta" -> << "I", "M", "P" >>
          [] familia = "cuatrifecta" -> << "C", "U", "A" >>
          [] familia = "doble" -> << "D", "O", "B" >>
          [] familia = "triplo" -> << "T", "P", "L" >>
          [] familia = "cuaterna" -> << "Q", "T", "N" >>
          [] familia = "quintuplo" -> << "Q", "T", "P" >>
          [] familia = "cadena" -> << "C", "A", "D" >>]

\* Lines 129-158.
NormalizarNombreApuesta(nombre) ==
    LET n == Strip(nombre)
        palabras == SplitBlancos(n)
    IN  IF n = << >> THEN n
        ELSE IF palabras = << >> THEN n
        ELSE IF \/ Contiene(Lower(n), pase)
                \/ Texto(Lower(palabras[1])) \in DOMAIN MAPEO_ABREVIATURAS
             THEN palabras[1]
        ELSE n

AbreviarApuesta_SinLower(nombre) ==
    LET n == Strip(nombre) IN
    IF n = << >> THEN n
    ELSE Get(MAPEO_ABREVIATURAS, Texto(n), n)

\* Lines 161-169.
AbreviarApuesta(nombre) ==
    LET n == Strip(nombre) IN
    IF n = << >> THEN n
    ELSE Get(MAPEO_ABREVIATURAS, Texto(Lower(n)), n)

(***************************************************************************)
(* The classifier on its own: one call of es_apuesta_excluida, or of       *)
(* normalizar_nombre_apuesta followed by abreviar_apuesta, on a bet name.  *)
(* The names are up to MaxPalabras words, written one after the other or   *)
(* separated by a blank, with or without a leading blank.                  *)
(***************************************************************************)
Palabras ==
    {<< "D", "o", "b", "l", "e" >>,
     << "D", "O", "B", "L", "E" >>,
     << "T", "r", "i", "p", "l", "o" >>,
     << "P", "i", "c", "k" >>,
     << "F", "i", "n", "a", "l" >>,
     << "1", "e", "r", ".", "P", "a", "s", "e" >>,
     << "1", "r", "e", " ", "p", "a", "s", "e" >>,
     << "2", "d", "o", ".", "P", "a", "s", "e" >>,
     << "3", "e", "r", " ", "p", "a", "s", "e" >>,
     << "4", "t", "o", ".", "p", "a", "s", "e" >>,
     << "5", "t", "o", ".", "P", "a", "s", "e" >>,
     << "U", "l", "t", "i", "m", "o", " ", "P", "a", "s", "e" >>,
     << "s" >>}

RECURSIVE Componer(_, _)
Componer(palabras, sep) ==
    IF palabras = << >> THEN << >>
    ELSE IF Len(palabras) = 1 THEN palabras[1]
    ELSE palabras[1] \o sep \o Componer(Tail(palabras), sep)

Nombres ==
    {ini \o Componer(ws, sep) :
        ini \in {<< >>, << " " >>},
        sep \in {<< >>, << " " >>},
        ws \in SecuenciasHasta(Palabras, MaxPalabras)}

InitClasificador ==
    /\ motor = "clasificador"
    /\ pc = "inicio"
    /\ entrada \in Nombres
    /\ salida = << >>
    /\ contenido = << >>
    /\ datos_pdf = << >>
    /\ datos_reporte = << >>
    /\ fecha_objetivo = NULL
    /\ diferencias = << >>
    /\ coincide_todo = FALSE
    /\ datos_leidos = << >>
    /\ llamadas = 1

\* Lines 91-109.
LlamarEsApuestaExcluida ==
    /\ motor = "clasificador"
    /\ pc = "inicio"
    /\ salida' = [excluida |-> EsApuestaExcluida(entrada)]
    /\ pc' = "excluida"
    /\ UNCHANGED <<motor, datos_pdf, datos_reporte, fecha_objetivo, diferencias,
                   coincide_todo, datos_leidos, llamadas, contenido, entrada>>

\* Lines 129-169: the two calls of lines 308-309, and the first one repeated.
LlamarNormalizarYAbreviar ==
    /\ motor = "clasificador"
    /\ pc = "inicio"
    /\ salida' = [normalizado |-> NormalizarNombreApuesta(entrada),
                  abreviado |-> AbreviarApuesta(NormalizarNombreApuesta(entrada)),
                  renormalizado |->
                      NormalizarNombreApuesta(NormalizarNombreApuesta(entrada))]
    /\ pc' = "abreviada"
    /\ UNCHANGED <<motor, datos_pdf, datos_reporte, fecha_objetivo, diferencias,
                   coincide_todo, datos_leidos, llamadas, contenido, entrada>>

NextClasificador == LlamarEsApuestaExcluida \/ LlamarNormalizarYAbreviar

SpecClasificador == InitClasificador /\ [][NextClasificador]_vars

(***************************************************************************)
(* int(), float() and _parsear_monto_str (lines 315-351).  A float is the  *)
(* decimal fraction num / 10^dec it was written as, without the trailing   *)
(* zeros of the fraction, so that equal numbers are equal records.         *)
(***************************************************************************)
RECURSIVE Pot10(_)
Pot10(d) == IF d = 0 THEN 1 ELSE 10 * Pot10(d - 1)

RECURSIVE Decimal(_, _)
Decimal(num, dec) ==
    IF dec > 0 /\ num % 10 = 0 THEN Decimal(num \div 10, dec - 1)
    ELSE [num |-> num, dec |-> dec]

\* The number a sequence of decimal digits writes.
RECURSIVE ValorEntero(_)
ValorEntero(ds) ==
    IF ds = << >> THEN 0
    ELSE 10 * ValorEntero(SubSeq(ds, 1, Len(ds) - 1)) + ValorDigito(ds[Len(ds)])

SoloDigitos(t) == \A k \in 1..Len(t) : EsDigito(t[k])

\* str.isdigit().
IsDigit(t) == t # << >> /\ SoloDigitos(t)

TieneSigno(t) == t # << >> /\ t[1] \in {"+", "-"}
SinSigno(t) == IF TieneSigno(t) THEN Tail(t) ELSE t
Signo(t) == IF t # << >> /\ t[1] = "-" THEN -1 ELSE 1

\* int(s): Algun(n), or NULL where it raises ValueError.
IntDe(s) ==
    LET t == Strip(s)
        u == SinSigno(t)
    IN  IF IsDigit(u) THEN Algun(Signo(t) * ValorEntero(u)) ELSE NULL

\* float(s): Algun(x), or NULL where it raises ValueError.
FloatDe(s) ==
    LET t == Strip(s)
        u == SinSigno(t)
        partes == SplitSep(u, ".")
    IN  IF /\ Len(partes) <= 2
           /\ \A k \in 1..Len(partes) : SoloDigitos(partes[k])
           /\ Unir(partes) # << >>
        THEN Algun(Decimal(Signo(t) * ValorEntero(Unir(partes)),
                           IF Len(partes) = 2 THEN Len(partes[2]) ELSE 0))
        ELSE NULL

\* str.replace(a, b) for a of one character.
Replace(s, a, b) == Unir([k \in 1..Len(s) |-> IF s[k] = a THEN b ELSE << s[k] >>])

ParsearMontoStr_SinTresDigitos(valor_str) ==
    LET s == Strip(valor_str)
        partes == SplitSep(s, ".")
    IN  IF valor_str = << >> THEN NULL
        ELSE IF s = << >> THEN NULL
        ELSE IF Contiene(s, << "," >>)
             THEN FloatDe(Replace(Replace(s, ".", << >>), ",", << "." >>))
        ELSE IF Contiene(s, << "." >>)
             THEN IF /\ Len(partes) >= 2
                     /\ \A k \in 1..Len(partes) : IsDigit(partes[k])
                     /\ FloatDe(Replace(s, ".", << >>)) # NULL
                  THEN FloatDe(Replace(s, ".", << >>))
                  ELSE FloatDe(s)
        ELSE FloatDe(s)

ParsearMontoStr_ComaConPuntos(valor_str) ==
    LET s == Strip(valor_str)
        partes == SplitSep(s, ".")
    IN  IF valor_str = << >> THEN NULL
        ELSE IF s = << >> THEN NULL
        ELSE IF Contiene(s, << "," >>)
             THEN FloatDe(Replace(s, ",", << "." >>))
        ELSE IF Contiene(s, << "." >>)
             THEN IF /\ Len(partes) >= 2
                     /\ \A k \in 1..Len(partes) : IsDigit(partes[k])
                     /\ Len(partes[Len(partes)]) = 3
                     /\ FloatDe(Replace(s, ".", << >>)) # NULL
                  THEN FloatDe(Replace(s, ".", << >>))
                  ELSE FloatDe(s)
        ELSE FloatDe(s)

\* Lines 315-351, for a str argument.
ParsearMontoStr(valor_str) ==
    LET s == Strip(valor_str)
        partes == SplitSep(s, ".")
    IN  IF valor_str = << >> THEN NULL
        ELSE IF s = << >> THEN NULL
        ELSE IF Contiene(s, << "," >>)
             THEN FloatDe(Replace(Replace(s, ".", << >>), ",", << "." >>))
        ELSE IF Contiene(s, << "." >>)
             THEN IF /\ Len(partes) >= 2
                     /\ \A k \in 1..Len(partes) : IsDigit(partes[k])
                     /\ Len(partes[Len(partes)]) = 3
                     /\ FloatDe(Replace(s, ".", << >>)) # NULL
                  THEN FloatDe(Replace(s, ".", << >>))
                  ELSE FloatDe(s)
        ELSE FloatDe(s)

\* The amount tokens explored: up to MaxCaracteres characters among two
\* digits, the period and the comma, with or without a leading blank.
CaracteresMonto == {"0", "5", ".", ","}

Tokens ==
    {ini \o t : ini \in {<< >>, << " " >>},
                t \in SecuenciasHasta(CaracteresMonto, MaxCaracteres)}

InitMonto ==
    /\ motor = "monto"
    /\ pc = "inicio"
    /\ entrada \in Tokens
    /\ salida = << >>
    /\ contenido = << >>
    /\ datos_pdf = << >>
    /\ datos_reporte = << >>
    /\ fecha_objetivo = NULL
    /\ diferencias = << >>
    /\ coincide_todo = FALSE
    /\ datos_leidos = << >>
    /\ llamadas = 1

\* Lines 315-351.
LlamarParsearMontoStr ==
    /\ motor = "monto"
    /\ pc = "inicio"
    /\ salida' = ParsearMontoStr(entrada)
    /\ pc' = "fin"
    /\ UNCHANGED <<motor, datos_pdf, datos_reporte, fecha_objetivo, diferencias,
                   coincide_todo, datos_leidos, llamadas, contenido, entrada>>

SpecMonto == InitMonto /\ [][LlamarParsearMontoStr]_vars

(***************************************************************************)
(* The official document: obtener_caballos_por_carrera (lines 172-212),    *)
(* obtener_apuestas_por_carrera (lines 215-312) and                        *)
(* _normalizar_desde_lista_apuestas (lines 354-371).                       *)
(*                                                                         *)
(* A page is what the patterns find in its text:                           *)
(*   carrera          : the race number of the header, NULL without header *)
(*   numeros_caballos : the two-digit numbers patron_caballo matches       *)
(*   fragmentos       : the matches of _PATRON_APUESTA_VALOR in the bets   *)
(*                      block, each [nombre |-> group 1, valor |-> group 2];*)
(*                      none when the page has no APUESTAS: line           *)
(* A row of apuestas_raw is [carrera, caballos, codigo, valor].            *)
(***************************************************************************)
\* str.rstrip(",").
RECURSIVE RStripComa(_)
RStripComa(s) ==
    IF s # << >> /\ s[Len(s)] = "," THEN RStripComa(SubSeq(s, 1, Len(s) - 1)) ELSE s

\* Lines 191-210.
RECURSIVE ObtenerCaballosPorCarrera(_, _, _)
ObtenerCaballosPorCarrera(paginas, p, resultado) ==
    IF p > Len(paginas) THEN resultado
    ELSE IF paginas[p].carrera = NULL
         THEN ObtenerCaballosPorCarrera(paginas, p + 1, resultado)
    ELSE LET numeros_caballos == {n \in paginas[p].numeros_caballos : 1 <= n /\ n <= 24}
             cantidad == IF numeros_caballos # {}
                         THEN CHOOSE x \in numeros_caballos :
                                  \A y \in numeros_caballos : y <= x
                         ELSE 0
         IN  ObtenerCaballosPorCarrera(paginas, p + 1,
                                       Put(resultado, paginas[p].carrera[1], cantidad))

FilaApuesta(num_carrera, cantidad_caballos, codigo, valor) ==
    [carrera |-> num_carrera, caballos |-> cantidad_caballos,
     codigo |-> codigo, valor |-> valor]

\* FilasGanador leaving out the excluded sub-names.
RECURSIVE FilasGanador_ConExclusion(_, _, _, _)
FilasGanador_ConExclusion(partes, k, num_carrera, cantidad_caballos) ==
    IF k > Len(partes) THEN << >>
    ELSE IF Strip(partes[k]) = << >> \/ EsApuestaExcluida(Strip(partes[k]))
         THEN FilasGanador_ConExclusion(partes, k + 1, num_carrera, cantidad_caballos)
    ELSE << FilaApuesta(num_carrera, cantidad_caballos,
                        AbreviarApuesta(NormalizarNombreApuesta(Strip(partes[k]))),
                        << >>) >>
         \o FilasGanador_ConExclusion(partes, k + 1, num_carrera, cantidad_caballos)

\* Lines 290-296: the rows of a fragment that contains "Ganador".
RECURSIVE FilasGanador(_, _, _, _)
FilasGanador(partes, k, num_carrera, cantidad_caballos) ==
    IF k > Len(partes) THEN << >>
    ELSE IF Strip(partes[k]) = << >>
         THEN FilasGanador(partes, k + 1, num_carrera, cantidad_caballos)
    ELSE << FilaApuesta(num_carrera, cantidad_caballos,
                        AbreviarApuesta(NormalizarNombreApuesta(Strip(partes[k]))),
                        << >>) >>
         \o FilasGanador(partes, k + 1, num_carrera, cantidad_caballos)

\* FilasDeFragmento with the exclusion check on the whole fragment.
FilasDeFragmento_ExcluyeFragmento(fragmento, num_carrera, cantidad_caballos) ==
    LET apuesta_bruta == RStripComa(Strip(fragmento.nombre))
        valor == Strip(fragmento.valor)
        tramos == SplitSep(apuesta_bruta, ",")
        apuesta == IF Contiene(apuesta_bruta, << "," >>)
                   THEN Strip(tramos[Len(tramos)])
                   ELSE apuesta_bruta
    IN  IF apuesta_bruta = << >> \/ valor = << >> THEN << >>
        ELSE IF Contiene(apuesta_bruta, << "G", "a", "n", "a", "d", "o", "r" >>)
             THEN FilasGanador(tramos, 1, num_carrera, cantidad_caballos)
        ELSE IF ~EsApuestaExcluida(apuesta_bruta)
             THEN << FilaApuesta(num_carrera, cantidad_caballos,
                                 AbreviarApuesta(NormalizarNombreApuesta(apuesta)),
                                 valor) >>
        ELSE << >>

\* Lines 282-310: the rows one match of _PATRON_APUESTA_VALOR adds.
FilasDeFragmento(fragmento, num_carrera, cantidad_caballos) ==
    LET apuesta_bruta == RStripComa(Strip(fragmento.nombre))
        valor == Strip(fragmento.valor)
        tramos == SplitSep(apuesta_bruta, ",")
        apuesta == IF Contiene(apuesta_bruta, << "," >>)
                   THEN Strip(tramos[Len(tramos)])
                   ELSE apuesta_bruta
    IN  IF apuesta_bruta = << >> \/ valor = << >> THEN << >>
        ELSE IF Contiene(apuesta_bruta, << "G", "a", "n", "a", "d", "o", "r" >>)
             THEN FilasGanador(tramos, 1, num_carrera, cantidad_caballos)
        ELSE IF ~EsApuestaExcluida(apuesta)
             THEN << FilaApuesta(num_carrera, cantidad_caballos,
                                 AbreviarApuesta(NormalizarNombreApuesta(apuesta)),
                                 valor) >>
        ELSE << >>

\* Lines 281-310.
RECURSIVE FilasDeFragmentos(_, _, _, _)
FilasDeFragmentos(fragmentos, k, num_carrera, cantidad_caballos) ==
    IF k > Len(fragmentos) THEN << >>
    ELSE FilasDeFragmento(fragmentos[k], num_carrera, cantidad_caballos)
         \o FilasDeFragmentos(fragmentos, k + 1, num_carrera, cantidad_caballos)

\* Lines 250-310.
RECURSIVE FilasDePaginas(_, _, _)
FilasDePaginas(paginas, p, caballos_por_carrera) ==
    IF p > Len(paginas) THEN << >>
    ELSE IF paginas[p].carrera = NULL
         THEN FilasDePaginas(paginas, p + 1, caballos_por_carrera)
    ELSE FilasDeFragmentos(paginas[p].fragmentos, 1, paginas[p].carrera[1],
                           Get(caballos_por_carrera, paginas[p].carrera[1], 0))
         \o FilasDePaginas(paginas, p + 1, caballos_por_carrera)

\* Lines 215-312.
ObtenerApuestasPorCarrera(paginas) ==
    FilasDePaginas(paginas, 1, ObtenerCaballosPorCarrera(paginas, 1, DictVacio))

\* NormalizarDesdeLista keeping the first amount written for a code.
RECURSIVE NormalizarDesdeLista_PrimerMonto(_, _, _)
NormalizarDesdeLista_PrimerMonto(apuestas_raw, k, resultado) ==
    IF k > Len(apuestas_raw) THEN resultado
    ELSE LET fila == apuestas_raw[k]
             previa == Get(resultado, fila.carrera,
                           [caballos |-> fila.caballos, apuestas |-> DictVacio])
         IN  NormalizarDesdeLista_PrimerMonto(apuestas_raw, k + 1,
                 Put(resultado, fila.carrera,
                     [caballos |-> previa.caballos,
                      apuestas |-> IF Texto(fila.codigo) \in DOMAIN previa.apuestas
                                   THEN previa.apuestas
                                   ELSE Put(previa.apuestas, Texto(fila.codigo),
                                            ParsearMontoStr(fila.valor))]))

\* NormalizarDesdeLista taking the horse count of every observation.
RECURSIVE NormalizarDesdeLista_CaballosUltimo(_, _, _)
NormalizarDesdeLista_CaballosUltimo(apuestas_raw, k, resultado) ==
    IF k > Len(apuestas_raw) THEN resultado
    ELSE LET fila == apuestas_raw[k]
             previa == Get(resultado, fila.carrera,
                           [caballos |-> fila.caballos, apuestas |-> DictVacio])
         IN  NormalizarDesdeLista_CaballosUltimo(apuestas_raw, k + 1,
                 Put(resultado, fila.carrera,
                     [caballos |-> fila.caballos,
                      apuestas |-> Put(previa.apuestas, Texto(fila.codigo),
                                       ParsearMontoStr(fila.valor))]))

\* Lines 361-369: the keys of the bets map are the str of the codes.
RECURSIVE NormalizarDesdeLista(_, _, _)
NormalizarDesdeLista(apuestas_raw, k, resultado) ==
    IF k > Len(apuestas_raw) THEN resultado
    ELSE LET fila == apuestas_raw[k]
             previa == Get(resultado, fila.carrera,
                           [caballos |-> fila.caballos, apuestas |-> DictVacio])
         IN  NormalizarDesdeLista(apuestas_raw, k + 1,
                 Put(resultado, fila.carrera,
                     [caballos |-> previa.caballos,
                      apuestas |-> Put(previa.apuestas, Texto(fila.codigo),
                                       ParsearMontoStr(fila.valor))]))

\* Lines 354-371.
NormalizarDesdeListaApuestas(apuestas_raw) ==
    NormalizarDesdeLista(apuestas_raw, 1, DictVacio)

\* The documents explored: up to MaxPaginas pages, with or without a header,
\* each with up to MaxFragmentos matches in its bets block.
Fragmento(nombre, valor) == [nombre |-> nombre, valor |-> valor]

Fragmentos ==
    {Fragmento(<< "G", "a", "n", "a", "d", "o", "r", ",", " ", "S", "e", "g", "u", "n", "d", "o" >>,
               << "2" >>),
     Fragmento(<< "E", "x", "a", "c", "t", "a" >>,
               << "1", ".", "0", "0", "0" >>),
     Fragmento(<< "P", "i", "c", "k", " ", "4" >>,
               << "1", "0", "0" >>),
     Fragmento(<< "C", "u", "a", "t", "e", "r", "n", "a", " ", "2", "d", "o", ".", "P", "a", "s", "e", ",", " ", "C", "a", "d", "e", "n", "a", " ", "1", "e", "r", ".", "P", "a", "s", "e" >>,
               << "2", "0", "0" >>),
     Fragmento(<< "T", "r", "i", "p", "l", "o", " ", "F", "i", "n", "a", "l" >>,
               << "5", ",", "5" >>),
     Fragmento(<< "D", "o", "b", "l", "e", " ", "P", "l", "u", "s", "," >>,
               << "5", "0" >>)}

PaginasModelo ==
    {[carrera |-> c, numeros_caballos |-> ns, fragmentos |-> fs] :
        c \in {NULL} \cup {Algun(n) : n \in Carreras},
        ns \in {{}, {MaxCaballos + 1, 25}},
        fs \in SecuenciasHasta(Fragmentos, MaxFragmentos)}

InitDocumento ==
    /\ motor = "documento"
    /\ pc = "inicio"
    /\ entrada \in SecuenciasHasta(PaginasModelo, MaxPaginas)
    /\ salida = << >>
    /\ contenido = << >>
    /\ datos_pdf = << >>
    /\ datos_reporte = << >>
    /\ fecha_objetivo = NULL
    /\ diferencias = << >>
    /\ coincide_todo = FALSE
    /\ datos_leidos = << >>
    /\ llamadas = 1

\* Lines 374-386: _normalizar_pdf without apuestas_raw.
LeerDocumento ==
    /\ motor = "documento"
    /\ pc = "inicio"
    /\ salida' = ObtenerApuestasPorCarrera(entrada)
    /\ datos_pdf' = NormalizarDesdeListaApuestas(ObtenerApuestasPorCarrera(entrada))
    /\ pc' = "fin"
    /\ UNCHANGED <<motor, datos_reporte, fecha_objetivo, diferencias,
                   coincide_todo, datos_leidos, llamadas, contenido, entrada>>

SpecDocumento == InitDocumento /\ [][LeerDocumento]_vars

(***************************************************************************)
(* _expandir_race_map on the text of a race range (lines 662-723): the     *)
(* text is read into the parts ExpandirRaceMap works on.                   *)
(***************************************************************************)
\* Lines 685-696 and 710-714: a part without its blanks, split at the
\* hyphens, each piece given to int().
AnalizarParte(texto) ==
    LET parte == Strip(texto)
        rango_parts == SplitSep(parte, "-")
    IN  IF parte = << >> THEN << >>
        ELSE [k \in 1..Len(rango_parts) |-> IntDe(rango_parts[k])]

\* Lines 673-683 and 721.
AnalizarRaceMap(texto) ==
    LET race_map == Upper(Strip(texto))
        partes == SplitSep(race_map, ",")
    IN  [todas |-> race_map = << "A", "L", "L" >>,
         partes |-> [k \in 1..Len(partes) |-> AnalizarParte(partes[k])],
         entero |-> IntDe(race_map)]

\* Lines 662-723, for a str argument.
ExpandirRaceMapTexto(texto) == ExpandirRaceMap(AnalizarRaceMap(texto))

\* The race ranges explored: up to MaxSegmentos segments separated by
\* commas, and every text of up to MaxSimbolos characters.
Segmentos ==
    {<< "2" >>,
     << "4" >>,
     << "1", "0" >>,
     << "6", "-", "7" >>,
     << "1", "-", "3" >>,
     << "3", "-", "1" >>,
     << "x" >>,
     << >>,
     << " ", "2", " " >>,
     << "1", "-" >>,
     << "-", "5" >>,
     << "1", "-", "2", "-", "3" >>,
     << "A", "L", "L" >>,
     << "1", "-", "1", "3" >>}

SimbolosRaceMap == {"1", "2", "3", ",", "-", " ", "x"}

Expresiones ==
    {Componer(segs, << "," >>) : segs \in SecuenciasHasta(Segmentos, MaxSegmentos)}
    \cup SecuenciasHasta(SimbolosRaceMap, MaxSimbolos)

InitRaceMap ==
    /\ motor = "race_map"
    /\ pc = "inicio"
    /\ entrada \in Expresiones
    /\ salida = << >>
    /\ contenido = << >>
    /\ datos_pdf = << >>
    /\ datos_reporte = << >>
    /\ fecha_objetivo = NULL
    /\ diferencias = << >>
    /\ coincide_todo = FALSE
    /\ datos_leidos = << >>
    /\ llamadas = 1

\* Lines 662-723.
LlamarExpandirRaceMap ==
    /\ motor = "race_map"
    /\ pc = "inicio"
    /\ salida' = ExpandirRaceMapTexto(entrada)
    /\ pc' = "fin"
    /\ UNCHANGED <<motor, datos_pdf, datos_reporte, fecha_objetivo, diferencias,
                   coincide_todo, datos_leidos, llamadas, contenido, entrada>>

SpecRaceMap == InitRaceMap /\ [][LlamarExpandirRaceMap]_vars

(***************************************************************************)
(* Properties of the reconciliation engines.                               *)
(***************************************************************************)
TiposValor == {"ValorDiferente", "ReporteNull", "PdfNull"}

\* The messages of the returned list that name race n.
MensajesDe(n) == SelectSeq(diferencias, LAMBDA m : m.carrera = n)

\* How many messages of the returned list satisfy P.
Cuantos(P(_)) == Cardinality({i \in 1..Len(diferencias) : P(diferencias[i])})

FinGen == motor = "generico" /\ pc = "fin"
FinPal == motor = "palermo" /\ pc = "fin"

\* C1: reconciling a canonical structure against an identical copy of itself
\* yields matches = true and an empty discrepancy list.
C1_Idempotencia ==
    (FinGen /\ datos_pdf = datos_reporte) => (diferencias = << >> /\ coincide_todo = TRUE)

\* A self-comparison of a structure that holds a race with an unknown and a
\* known amount.
C1_Testigo ==
    /\ FinGen
    /\ datos_pdf = datos_reporte
    /\ \E n \in DOMAIN datos_pdf : \E c1, c2 \in DOMAIN datos_pdf[n].apuestas :
         datos_pdf[n].apuestas[c1] = NULL /\ datos_pdf[n].apuestas[c2] # NULL

\* C2: for a race on both sides, the "in report but not in document" message
\* is emitted iff the report has a code the document lacks, and it lists
\* exactly those codes (and symmetrically); when the two sides agree on
\* everything but one code only the report has, for one race, the result is
\* exactly that one discrepancy and matches = false.
C2_DiferenciaDeConjuntos ==
    FinGen =>
      /\ \A n \in DOMAIN datos_pdf \cap DOMAIN datos_reporte :
           LET cp == DOMAIN datos_pdf[n].apuestas
               cr == DOMAIN datos_reporte[n].apuestas
           IN  /\ Cuantos(LAMBDA m : m.carrera = n /\ m.tipo = "ApuestasSoloEnReporte")
                    = (IF cr \ cp # {} THEN 1 ELSE 0)
               /\ Cuantos(LAMBDA m : m.carrera = n /\ m.tipo = "ApuestasSoloEnPdf")
                    = (IF cp \ cr # {} THEN 1 ELSE 0)
               /\ \A i \in 1..Len(diferencias) :
                    diferencias[i].carrera = n =>
                      /\ diferencias[i].tipo = "ApuestasSoloEnReporte"
                           => diferencias[i].codigos = cr \ cp
                      /\ diferencias[i].tipo = "ApuestasSoloEnPdf"
                           => diferencias[i].codigos = cp \ cr
      /\ \A n \in DOMAIN datos_pdf : \A c \in CodigosGen \ DOMAIN datos_pdf[n].apuestas :
           \A v \in ValoresOpc :
             datos_reporte = [datos_pdf EXCEPT ![n].apuestas = Put(@, c, v)]
               => /\ diferencias = << Msg(n, "ApuestasSoloEnReporte", {c}, NULL, NULL) >>
                  /\ coincide_todo = FALSE

\* The two sides agree on everything except EXA, which only the report has
\* (with an amount) for one race that also holds another bet.
C2_Testigo ==
    /\ FinGen
    /\ \E n \in DOMAIN datos_pdf :
         /\ "EXA" \notin DOMAIN datos_pdf[n].apuestas
         /\ DOMAIN datos_pdf[n].apuestas # {}
         /\ \E v \in Montos :
              datos_reporte = [datos_pdf EXCEPT ![n].apuestas = Put(@, "EXA", Algun(v))]
    /\ Len(diferencias) = 1

\* The document side and the report side that the engine of this behaviour
\* compared (for comparar_palermo the document side is apuestas_pdf, after
\* the completion rule).
LadoPdf ==
    IF motor = "generico" THEN datos_pdf
    ELSE Completar(datos_pdf, datos_reporte, fecha_objetivo,
                   ApuestasPdfInicial(datos_pdf, fecha_objetivo))

ApuestasLado(lado, n) == IF motor = "generico" THEN lado[n].apuestas ELSE lado[n]

\* C3: in both engines a race present on only one side produces exactly one
\* discrepancy for that race, which names the race and the side that lacks
\* it, and no other discrepancy for that race.
C3_CarreraEnUnSoloLado ==
    (pc = "fin" /\ motor \in {"generico", "palermo"}) =>
      \A n \in Carreras :
        /\ (n \in DOMAIN datos_reporte /\ n \notin DOMAIN LadoPdf)
             => MensajesDe(n) = << Msg(n, "CarreraSoloEnReporte", {}, NULL, NULL) >>
        /\ (n \in DOMAIN LadoPdf /\ n \notin DOMAIN datos_reporte)
             => MensajesDe(n) = << Msg(n, "CarreraSoloEnPdf", {}, NULL, NULL) >>

\* Race 1 only in the report, race 2 only in the document, and the race the
\* document has holds bets.
C3_Testigo ==
    /\ FinGen
    /\ DOMAIN datos_pdf = {2}
    /\ DOMAIN datos_reporte = {1}
    /\ DOMAIN datos_pdf[2].apuestas # {}
    /\ DOMAIN datos_reporte[1].apuestas # {}
    /\ Len(diferencias) = 2

\* C4: GAN, SEG and TER are compared for presence only: no amount
\* discrepancy is ever emitted for them by comparar_pdf_y_reporte.
C4_SoloPresencia ==
    FinGen =>
      \A i \in 1..Len(diferencias) :
        diferencias[i].tipo \in TiposValor
          => diferencias[i].codigos \cap apuestas_sin_comparar_valor = {}

\* GAN is on both sides of a race, with an amount in the document and none in
\* the report.
C4_Testigo ==
    /\ FinGen
    /\ \E n \in DOMAIN datos_pdf \cap DOMAIN datos_reporte :
         /\ "GAN" \in DOMAIN datos_pdf[n].apuestas \cap DOMAIN datos_reporte[n].apuestas
         /\ datos_pdf[n].apuestas["GAN"] # NULL
         /\ datos_reporte[n].apuestas["GAN"] = NULL

\* The amount messages of the returned list about code c of race n.
MensajesValor(n, c) ==
    SelectSeq(diferencias, LAMBDA m : m.carrera = n /\ m.tipo \in TiposValor /\ m.codigos = {c})

\* C5: for every code on both sides of a race (other than GAN/SEG/TER in the
\* generic engine): both amounts known and more than 0.01 apart gives one
\* value-mismatch message; both known and within 0.01 gives none; exactly one
\* known gives one message naming the side that is unknown; both unknown
\* gives none.  In both engines.
C5_Montos ==
    (pc = "fin" /\ motor \in {"generico", "palermo"}) =>
      \A n \in DOMAIN LadoPdf \cap DOMAIN datos_reporte :
        \A c \in DOMAIN ApuestasLado(LadoPdf, n) \cap DOMAIN ApuestasLado(datos_reporte, n) :
          (motor = "generico" => c \notin apuestas_sin_comparar_valor) =>
            LET vp == ApuestasLado(LadoPdf, n)[c]
                vr == ApuestasLado(datos_reporte, n)[c]
            IN  MensajesValor(n, c) =
                  IF vp # NULL /\ vr # NULL
                  THEN IF Abs(vp[1] - vr[1]) > Tolerancia
                       THEN << Msg(n, "ValorDiferente", {c}, vp, vr) >>
                       ELSE << >>
                  ELSE IF vp # NULL THEN << Msg(n, "ReporteNull", {c}, vp, NULL) >>
                  ELSE IF vr # NULL THEN << Msg(n, "PdfNull", {c}, NULL, vr) >>
                  ELSE << >>

\* One race with a code whose two amounts differ by no more than the
\* tolerance, and a code known on one side only.
C5_Testigo ==
    /\ FinGen
    /\ \E n \in DOMAIN datos_pdf \cap DOMAIN datos_reporte :
         /\ {"EXA", "TRI"} \subseteq DOMAIN datos_pdf[n].apuestas \cap DOMAIN datos_reporte[n].apuestas
         /\ datos_pdf[n].apuestas["EXA"] # NULL
         /\ datos_reporte[n].apuestas["EXA"] # NULL
         /\ datos_pdf[n].apuestas["EXA"] # datos_reporte[n].apuestas["EXA"]
         /\ MensajesValor(n, "EXA") = << >>
         /\ datos_pdf[n].apuestas["TRI"] = NULL
         /\ Len(MensajesValor(n, "TRI")) = 1

\* Position of a message kind within the messages of one race.
Rango(tipo) ==
    IF tipo \in {"CarreraSoloEnReporte", "CarreraSoloEnPdf"} THEN 0
    ELSE IF tipo = "CaballosDifiere" THEN 1
    ELSE IF tipo \in {"ApuestasSoloEnPdf", "ApuestasSoloEnReporte"} THEN 2
    ELSE 3

\* C6: the messages of a lower race number come before those of a higher
\* one, and within a race the horse-count message comes before the
\* set-difference messages, which come before every amount message.
C6_Orden ==
    FinGen =>
      \A i, j \in 1..Len(diferencias) :
        i < j =>
          /\ diferencias[i].carrera <= diferencias[j].carrera
          /\ diferencias[i].carrera = diferencias[j].carrera
               => Rango(diferencias[i].tipo) <= Rango(diferencias[j].tipo)

\* Race 1 yields a horse-count, a set-difference and an amount message, and
\* race 2 yields a message too.
C6_Testigo ==
    /\ FinGen
    /\ Len(diferencias) = 4
    /\ diferencias[1].tipo = "CaballosDifiere"
    /\ diferencias[2].tipo \in {"ApuestasSoloEnPdf", "ApuestasSoloEnReporte"}
    /\ diferencias[3].tipo \in TiposValor
    /\ diferencias[3].carrera = 1
    /\ diferencias[4].carrera = 2

\* C7: after comparar_palermo returns, the caller-supplied datos_pdf holds
\* exactly the content it held before the call.
C7_NoMutaEntradas == motor = "palermo" => datos_pdf = datos_leidos

\* C8: the result of comparar_palermo for a given datos_pdf, report and date
\* is the one that a first comparison of the document as it was read would
\* give, whatever comparisons were run before with the same datos_pdf.
C8_LlamadasIndependientes ==
    FinPal => diferencias \in DiferenciasPal(datos_leidos, datos_reporte, fecha_objetivo)

(***************************************************************************)
(* Properties of the report reader.                                        *)
(***************************************************************************)
FinReporte == motor = "reporte" /\ pc = "fin"

\* The positions of the race rows of race n, and the races that have one.
FilasDeCarrera(n) ==
    {i \in 1..Len(contenido.lineas) :
        contenido.lineas[i].carrera /\ contenido.lineas[i].num = n}

CarrerasConFila ==
    {contenido.lineas[i].num :
        i \in {k \in 1..Len(contenido.lineas) : contenido.lineas[k].carrera}}

\* A stakes row that carries an amount and a mapped code.
FilaUtil(fila) == fila.valor # NULL /\ mapeo_rsm(fila.tipo_rsm) # SinCodigo

\* C9: every race keyed in the structure _normalizar_reporte returns was
\* recognised by a race row of the availability pass, whatever the stakes
\* rows say; a report whose race rows give races 1 and 2 only, with an "ALL"
\* stakes row, yields entries for races 1 and 2 only.
C9_CarrerasDeDisponibilidad ==
    FinReporte =>
        /\ DOMAIN datos_reporte \subseteq CarrerasConFila
        /\ (/\ CarrerasConFila = {1, 2}
            /\ \E k \in 1..Len(contenido.filas_rsm) :
                   contenido.filas_rsm[k].race_map.todas)
           => DOMAIN datos_reporte = {1, 2}

\* Races 1 and 2 have race rows, and the stakes rows are a usable "ALL" row
\* and a usable row that lists a race without a race row.
C9_Testigo ==
    /\ FinReporte
    /\ CarrerasConFila = {1, 2}
    /\ \E k \in 1..Len(contenido.filas_rsm) :
           FilaUtil(contenido.filas_rsm[k]) /\ contenido.filas_rsm[k].race_map.todas
    /\ \E k \in 1..Len(contenido.filas_rsm) :
           /\ FilaUtil(contenido.filas_rsm[k])
           /\ \E x \in 1..Len(ExpandirRaceMap(contenido.filas_rsm[k].race_map)) :
                  ExpandirRaceMap(contenido.filas_rsm[k].race_map)[x] \notin CarrerasConFila
    /\ DOMAIN datos_reporte = {1, 2}

\* Line j continues the race row at line i: it is one of the 15 lines after
\* it and no line from i+1 to j is blank, unindented or numbered.
Continua(i, j) ==
    /\ i < j
    /\ j <= Len(contenido.lineas)
    /\ j - i <= 15
    /\ \A k \in (i + 1)..j :
           /\ ~contenido.lineas[k].blanca
           /\ contenido.lineas[k].sangria
           /\ ~contenido.lineas[k].numero

\* The codes of the race rows of race n and of the lines that continue them.
CodigosDisponibles(n) ==
    UNION {contenido.lineas[i].codigos : i \in FilasDeCarrera(n)}
    \cup UNION {contenido.lineas[j].codigos :
                   j \in {k \in 1..Len(contenido.lineas) :
                             \E i \in FilasDeCarrera(n) : Continua(i, k)}}

\* The stakes rows that give race n an amount for code c.
FilasQueAsignan(n, c) ==
    {k \in 1..Len(contenido.filas_rsm) :
        LET fila == contenido.filas_rsm[k] IN
        /\ fila.valor # NULL
        /\ mapeo_rsm(fila.tipo_rsm) = c
        /\ \/ fila.race_map.todas
           \/ \E x \in 1..Len(ExpandirRaceMap(fila.race_map)) :
                 ExpandirRaceMap(fila.race_map)[x] = n}

Max(S) == CHOOSE x \in S : \A y \in S : y <= x

\* C10: the bets of every race of the result are exactly the codes of its
\* race rows and their continuation lines; a code's amount is the one the
\* last stakes row for that race and code gives, unknown when there is none,
\* and never an amount of the default-minimums section.
C10_ApuestasYValores ==
    FinReporte =>
        \A n \in DOMAIN datos_reporte :
            /\ DOMAIN datos_reporte[n].apuestas = CodigosDisponibles(n)
            /\ \A c \in DOMAIN datos_reporte[n].apuestas :
                   /\ datos_reporte[n].apuestas[c] =
                          IF FilasQueAsignan(n, c) = {} THEN NULL
                          ELSE contenido.filas_rsm[Max(FilasQueAsignan(n, c))].valor
                   /\ c \in DOMAIN contenido.valores_default
                          => datos_reporte[n].apuestas[c]
                                 # Algun(contenido.valores_default[c])

\* Race 1 took TRI from a continuation line and has stakes amounts for EXA
\* and TRI; GAN has no stakes row and a default amount, and stays unknown.
C10_Testigo ==
    /\ FinReporte
    /\ 1 \in DOMAIN datos_reporte
    /\ \E i \in FilasDeCarrera(1) : \E j \in 1..Len(contenido.lineas) :
           Continua(i, j) /\ "TRI" \in contenido.lineas[j].codigos
    /\ DOMAIN datos_reporte[1].apuestas = {"GAN", "EXA", "TRI"}
    /\ datos_reporte[1].apuestas["EXA"] # NULL
    /\ datos_reporte[1].apuestas["GAN"] = NULL
    /\ "GAN" \in DOMAIN contenido.valores_default
    /\ FilasQueAsignan(1, "TRI") # {}
    /\ datos_reporte[1].apuestas["TRI"] # NULL

\* A race whose rows lack a code that a stakes row assigns to it.
C10_TestigoSinDisponibilidad ==
    /\ FinReporte
    /\ \E n \in DOMAIN datos_reporte :
           /\ FilasQueAsignan(n, "TRI") # {}
           /\ "TRI" \notin DOMAIN datos_reporte[n].apuestas

(***************************************************************************)
(* Properties of the classifier.  The qualifiers of a name are stated on   *)
(* its lower-cased text l.                                                 *)
(***************************************************************************)
FinExcluida == motor = "clasificador" /\ pc = "excluida"
FinAbreviada == motor = "clasificador" /\ pc = "abreviada"

\* l has, from position a to position b-1, an optional period and then blanks.
PuntoYBlancos(l, a, b) ==
    \E d \in {0, 1} :
        /\ a + d <= b
        /\ d = 1 => l[a] = "."
        /\ \A k \in (a + d)..(b - 1) : EsBlanco(l[k])

\* l holds `marca`, blanks (after a period when conPunto) and "pase",
\* from position i to position j-1.
MarcaYPase(l, marca, conPunto, i, j) ==
    /\ EmpiezaEn(l, i, marca)
    /\ j - Len(pase) >= i + Len(marca)
    /\ EmpiezaEn(l, j - Len(pase), pase)
    /\ IF conPunto THEN PuntoYBlancos(l, i + Len(marca), j - Len(pase))
       ELSE \A k \in (i + Len(marca))..(j - Len(pase) - 1) : EsBlanco(l[k])

NoPalabraEn(l, k) == k < 1 \/ k > Len(l) \/ ~EsPalabra(l[k])

\* A 2nd, 3rd, 4th, 5th or last stage qualifier.
CalificadorSegundoEnAdelante(nombre) ==
    LET l == Lower(nombre) IN
    \E i \in 1..Len(l), j \in 1..(Len(l) + 1) :
        \/ \E o \in {<< "2", "d", "o" >>, << "3", "e", "r" >>,
                     << "4", "t", "o" >>, << "5", "t", "o" >>} :
               MarcaYPase(l, o, TRUE, i, j)
        \/ MarcaYPase(l, << "u", "l", "t", "i", "m", "o" >>, FALSE, i, j)

\* A 'final' qualifier: the word final, or final followed by pase.
CalificadorFinal(nombre) ==
    LET l == Lower(nombre) IN
    \E i \in 1..Len(l) :
        \/ EmpiezaEn(l, i, final) /\ NoPalabraEn(l, i - 1) /\ NoPalabraEn(l, i + Len(final))
        \/ \E j \in 1..(Len(l) + 1) : MarcaYPase(l, final, FALSE, i, j)

\* An explicit 1st stage qualifier: 1er.Pase or 1re.Pase as a word of its own.
CalificadorPrimerPase(nombre) ==
    LET l == Lower(nombre) IN
    \E i \in 1..Len(l), j \in 1..(Len(l) + 1) :
        /\ \E o \in {<< "1", "e", "r" >>, << "1", "r", "e" >>} : MarcaYPase(l, o, TRUE, i, j)
        /\ NoPalabraEn(l, i - 1)
        /\ NoPalabraEn(l, j)

\* The name begins with 'doble', leading blanks and letter case ignored.
EmpiezaConDoble(nombre) == StartsWith(Lower(LStrip(nombre)), doble)

\* The name begins with the word 'doble'.
EmpiezaConPalabraDoble(nombre) ==
    /\ EmpiezaConDoble(nombre)
    /\ NoPalabraEn(LStrip(nombre), Len(doble) + 1)

\* C11: es_apuesta_excluida returns false for every name that begins with
\* the word 'doble', in any letter case and after any leading blanks,
\* whatever stage qualifiers follow it.
C11_DobleNuncaExcluida ==
    (FinExcluida /\ EmpiezaConPalabraDoble(entrada)) => ~salida.excluida

\* An upper-case DOBLE after a leading blank, followed by a stage qualifier
\* of the second stage onwards.
C11_Testigo ==
    /\ FinExcluida
    /\ EmpiezaConPalabraDoble(entrada)
    /\ entrada[1] = " "
    /\ entrada[3] = "O"
    /\ CalificadorSegundoEnAdelante(entrada)
    /\ ~salida.excluida

C13_Exclusion ==
    FinExcluida =>
        /\ (/\ entrada # << >>
            /\ ~EmpiezaConDoble(entrada)
            /\ CalificadorSegundoEnAdelante(entrada)) => salida.excluida
        /\ (/\ entrada # << >>
            /\ ~EmpiezaConDoble(entrada)
            /\ CalificadorFinal(entrada)
            /\ ~CalificadorPrimerPase(entrada)) => salida.excluida
        /\ (/\ ~CalificadorSegundoEnAdelante(entrada)
            /\ ~CalificadorFinal(entrada)) => ~salida.excluida
        /\ entrada = << >> => ~salida.excluida

\* A name excluded for its last stage qualifier alone.
C13_Testigo ==
    /\ FinExcluida
    /\ ~EmpiezaConDoble(entrada)
    /\ \E i \in 1..Len(entrada), j \in 1..(Len(entrada) + 1) :
           MarcaYPase(Lower(entrada), << "u", "l", "t", "i", "m", "o" >>, FALSE, i, j)
    /\ ~CalificadorFinal(entrada)
    /\ ~CalificadorPrimerPase(entrada)
    /\ salida.excluida

\* The first word of a name: its first run of characters that are not blanks.
PrimeraPalabra(nombre) ==
    LET t == LStrip(nombre)
        n == CHOOSE k \in 0..Len(t) :
                 /\ \A j \in 1..k : ~EsBlanco(t[j])
                 /\ k < Len(t) => EsBlanco(t[k + 1])
    IN  SubSeq(t, 1, n)

PrimeraPalabraEsFamilia(nombre) ==
    Texto(Lower(PrimeraPalabra(nombre))) \in DOMAIN MAPEO_ABREVIATURAS

C15_Testigo ==
    /\ FinAbreviada
    /\ PrimeraPalabra(entrada) = << "D", "O", "B", "L", "E" >>
    /\ Len(SplitBlancos(entrada)) = 3
    /\ salida.abreviado = << "D", "O", "B" >>

FinMonto == motor = "monto" /\ pc = "fin"

Cuenta(t, c) == Cardinality({k \in 1..Len(t) : t[k] = c})

SoloDigitosYPuntos(t) == \A k \in 1..Len(t) : EsDigito(t[k]) \/ t[k] = "."

\* Every period-separated segment of t is made of digits, and the one after
\* the last period has exactly three: t neither begins nor ends with a
\* period, has no two periods in a row, and its fourth character from the
\* end is its last period.
PuntosDeMiles(t) ==
    /\ Len(t) >= 5
    /\ t[1] # "."
    /\ \A k \in 1..(Len(t) - 1) : ~(t[k] = "." /\ t[k + 1] = ".")
    /\ t[Len(t) - 3] = "."
    /\ \A k \in (Len(t) - 2)..Len(t) : EsDigito(t[k])

\* The number t writes when `marca` is its decimal point: the digits of t
\* divided by ten for every digit after the mark; nothing when t has two
\* marks or no digit.
ConMarcaDecimal(t, marca) ==
    LET ds == SelectSeq(t, EsDigito) IN
    IF Cuenta(t, marca) > 1 \/ ds = << >> THEN NULL
    ELSE IF Cuenta(t, marca) = 0 THEN Algun(Decimal(ValorEntero(ds), 0))
    ELSE Algun(Decimal(ValorEntero(ds),
                       Len(t) - (CHOOSE k \in 1..Len(t) : t[k] = marca)))

\* C16: on a token of digits and periods, _parsear_monto_str reads every
\* period as a thousands separator, and returns the integer the digits
\* write, exactly when every period-separated segment is made of digits and
\* the last one has three; otherwise the period is the decimal point.
C16_PuntoDeMilesODecimal ==
    (FinMonto /\ SoloDigitosYPuntos(entrada) /\ Cuenta(entrada, ".") >= 1) =>
        IF PuntosDeMiles(entrada)
        THEN salida = Algun([num |-> ValorEntero(SelectSeq(entrada, EsDigito)), dec |-> 0])
        ELSE salida = ConMarcaDecimal(entrada, ".")

\* A token with two thousands separators.
C16_Testigo ==
    /\ FinMonto
    /\ SoloDigitosYPuntos(entrada)
    /\ Cuenta(entrada, ".") = 2
    /\ PuntosDeMiles(entrada)
    /\ salida # NULL
    /\ salida[1].num >= 1000
    /\ salida[1].dec = 0

\* A token whose single period is the decimal point.
C16_TestigoDecimal ==
    /\ FinMonto
    /\ SoloDigitosYPuntos(entrada)
    /\ Cuenta(entrada, ".") = 1
    /\ ~PuntosDeMiles(entrada)
    /\ salida # NULL
    /\ salida[1].dec = 1

\* C17: on a token with a comma, _parsear_monto_str removes every period
\* and reads the comma as the decimal point; it returns nothing for the
\* empty token and for every token that is no number after this, such as a
\* token with two commas.
C17_ComaDecimal ==
    FinMonto =>
        /\ Cuenta(entrada, ",") >= 1
               => salida = ConMarcaDecimal(SelectSeq(Strip(entrada), LAMBDA c : c # "."), ",")
        /\ entrada = << >> => salida = NULL
        /\ Cuenta(entrada, ",") >= 2 => salida = NULL

\* A token with a period before three digits, a comma and a decimal digit.
C17_Testigo ==
    /\ FinMonto
    /\ Cuenta(entrada, ",") = 1
    /\ Cuenta(entrada, ".") = 1
    /\ salida # NULL
    /\ salida[1].dec = 1
    /\ salida[1].num >= 10000

\* A token with two commas.
C17_TestigoDosComas ==
    /\ FinMonto
    /\ Cuenta(entrada, ",") = 2
    /\ Cardinality({k \in 1..Len(entrada) : EsDigito(entrada[k])}) >= 3
    /\ salida = NULL

(***************************************************************************)
(* Properties of the canonical structures.                                 *)
(***************************************************************************)
FinDocumento == motor = "documento" /\ pc = "fin"

\* The codes of the abbreviation table.
CodigosDeLaTabla == {Texto(MAPEO_ABREVIATURAS[f]) : f \in DOMAIN MAPEO_ABREVIATURAS}

\* C14: every bet code keyed in a canonical per-race structure is a code of
\* the abbreviation table, in the structure built from the official document
\* as in the one built from the report; a name that matches no family of the
\* table is dropped.
C14_CodigosDeLaTabla ==
    /\ FinDocumento =>
           \A n \in DOMAIN datos_pdf :
               DOMAIN datos_pdf[n].apuestas \subseteq CodigosDeLaTabla
    /\ FinReporte =>
           \A n \in DOMAIN datos_reporte :
               DOMAIN datos_reporte[n].apuestas \subseteq CodigosDeLaTabla

(***************************************************************************)
(* Properties of the race-range expander.                                  *)
(***************************************************************************)
FinRaceMap == motor = "race_map" /\ pc = "fin"

\* The segments of an expression, as written between its commas.
SegmentosDe(texto) == SplitSep(texto, ",")

\* A segment that is one number N, and one that is a range N-M: digits, a
\* hyphen and digits, each possibly between blanks.
EsNumero(seg) == IsDigit(Strip(seg))

EsRango(seg) ==
    /\ Cuenta(seg, "-") = 1
    /\ LET h == CHOOSE k \in 1..Len(seg) : seg[k] = "-" IN
       /\ IsDigit(Strip(SubSeq(seg, 1, h - 1)))
       /\ IsDigit(Strip(SubSeq(seg, h + 1, Len(seg))))

\* What a segment stands for: N, every integer from N to M, or nothing.
CarrerasDeSegmento(seg) ==
    IF EsNumero(seg) THEN << ValorEntero(Strip(seg)) >>
    ELSE IF EsRango(seg)
         THEN LET h == CHOOSE k \in 1..Len(seg) : seg[k] = "-"
                  n == ValorEntero(Strip(SubSeq(seg, 1, h - 1)))
                  m == ValorEntero(Strip(SubSeq(seg, h + 1, Len(seg))))
              IN  [k \in 1..(IF m >= n THEN m - n + 1 ELSE 0) |-> n + k - 1]
    ELSE << >>

RECURSIVE CarrerasDeSegmentos(_)
CarrerasDeSegmentos(segs) ==
    IF segs = << >> THEN << >>
    ELSE CarrerasDeSegmento(Head(segs)) \o CarrerasDeSegmentos(Tail(segs))

\* C18: on a comma list whose segments are single numbers N or two-part
\* ranges N-M, _expandir_race_map returns the numbers of the single segments
\* and every integer from N to M for each range, in segment order; an
\* expression without comma is expanded as one range or one number by the
\* same rule.
C18_ListasYRangos ==
    (/\ FinRaceMap
     /\ \A k \in 1..Len(SegmentosDe(entrada)) :
            EsNumero(SegmentosDe(entrada)[k]) \/ EsRango(SegmentosDe(entrada)[k]))
        => salida = CarrerasDeSegmentos(SegmentosDe(entrada))

\* A list of three segments with a range between two numbers.
C18_Testigo ==
    /\ FinRaceMap
    /\ Len(SegmentosDe(entrada)) = 3
    /\ EsNumero(SegmentosDe(entrada)[1])
    /\ EsRango(SegmentosDe(entrada)[2])
    /\ EsNumero(SegmentosDe(entrada)[3])
    /\ Len(salida) = 4

\* An expression without comma that is one range of thirteen races.
C18_TestigoSinComa ==
    /\ FinRaceMap
    /\ Len(SegmentosDe(entrada)) = 1
    /\ EsRango(entrada)
    /\ Len(salida) = 13

\* C19: no race number occurs twice in the result of _expandir_race_map,
\* also when segments repeat or overlap.
C19_SinRepetidos ==
    FinRaceMap =>
        \A i \in 1..Len(salida), j \in 1..Len(salida) :
            i # j => salida[i] # salida[j]

\* A segment fails integer parsing in a comma list when it is neither empty
\* nor a number nor a two-part range of numbers.
SegmentoFallido(seg) == Strip(seg) # << >> /\ ~EsNumero(seg) /\ ~EsRango(seg)

\* The expression with the text of its failing segments taken out.
SinFallidos(texto) ==
    LET segs == SegmentosDe(texto) IN
    Componer([k \in 1..Len(segs) |-> IF SegmentoFallido(segs[k]) THEN << >> ELSE segs[k]],
             << "," >>)

\* C20: a segment that fails integer parsing contributes no race number and
\* the other segments expand as if it were absent: a comma list expands to
\* what its numbers and ranges stand for, in order, which is also what the
\* list without the text of the failing segments expands to; an expression
\* without comma that int() rejects and that is no range of two numbers
\* expands to nothing.
C20_FallidosDescartados ==
    FinRaceMap =>
        /\ (Cuenta(entrada, ",") >= 1 /\ Upper(Strip(entrada)) # << "A", "L", "L" >>)
               => /\ salida = CarrerasDeSegmentos(SegmentosDe(entrada))
                  /\ salida = ExpandirRaceMapTexto(SinFallidos(entrada))
        /\ (/\ Cuenta(entrada, ",") = 0
            /\ Upper(Strip(entrada)) # << "A", "L", "L" >>
            /\ ~EsRango(entrada)
            /\ IntDe(entrada) = NULL)
               => salida = << >>

\* A failing segment between a number and a range that still expand.
C20_Testigo ==
    /\ FinRaceMap
    /\ Len(SegmentosDe(entrada)) = 3
    /\ EsNumero(SegmentosDe(entrada)[1])
    /\ SegmentoFallido(SegmentosDe(entrada)[2])
    /\ EsRango(SegmentosDe(entrada)[3])
    /\ Len(salida) >= 3

(***************************************************************************)
(* _normalizar_pdf with the list of raw observations already read (lines   *)
(* 374-386): _normalizar_desde_lista_apuestas on a list the caller built.  *)
(***************************************************************************)
\* The amount texts of the observations: empty, unparseable, two amounts.
ValoresObservados ==
    {<< >>, << "x" >>, << "5" >>, << "1", ".", "0", "0", "0" >>}

CodigosObservados == {<< "G", "A", "N" >>, << "E", "X", "A" >>}

Observaciones ==
    {FilaApuesta(n, k, c, v) : n \in Carreras, k \in 0..MaxCaballos,
                               c \in CodigosObservados, v \in ValoresObservados}

InitLista ==
    /\ motor = "lista"
    /\ pc = "inicio"
    /\ entrada \in SecuenciasHasta(Observaciones, MaxObservaciones)
    /\ salida = << >>
    /\ contenido = << >>
    /\ datos_pdf = << >>
    /\ datos_reporte = << >>
    /\ fecha_objetivo = NULL
    /\ diferencias = << >>
    /\ coincide_todo = FALSE
    /\ datos_leidos = << >>
    /\ llamadas = 1

\* Lines 384-386 with apuestas_raw given.
NormalizarLista ==
    /\ motor = "lista"
    /\ pc = "inicio"
    /\ datos_pdf' = NormalizarDesdeListaApuestas(entrada)
    /\ pc' = "fin"
    /\ UNCHANGED <<motor, datos_reporte, fecha_objetivo, diferencias,
                   coincide_todo, datos_leidos, llamadas, contenido, entrada, salida>>

SpecLista == InitLista /\ [][NormalizarLista]_vars

(***************************************************************************)
(* Properties of _normalizar_desde_lista_apuestas.                         *)
(***************************************************************************)
FinLista == motor = "lista" /\ pc = "fin"

\* The positions of the observations of race n, and of race n with code c.
ObservacionesDe(n) == {k \in 1..Len(entrada) : entrada[k].carrera = n}

ObservacionesDeCodigo(n, c) == {k \in ObservacionesDe(n) : entrada[k].codigo = c}

\* The amount a text denotes: 5 and 1.000 are known, the others unknown.
MontoObservado(v) ==
    IF v = << "5" >> THEN Algun(Decimal(5, 0))
    ELSE IF v = << "1", ".", "0", "0", "0" >> THEN Algun(Decimal(1000, 0))
    ELSE NULL

\* Every code of every race holds the amount of its last observation.
UltimaEscrituraDeMontos ==
    \A n \in DOMAIN datos_pdf :
        /\ DOMAIN datos_pdf[n].apuestas =
               {Texto(entrada[k].codigo) : k \in ObservacionesDe(n)}
        /\ \A c \in CodigosObservados :
               ObservacionesDeCodigo(n, c) # {} =>
                   datos_pdf[n].apuestas[Texto(c)] =
                       MontoObservado(entrada[Max(ObservacionesDeCodigo(n, c))].valor)

\* C21: the races of the structure built from a list of raw observations are
\* the races observed, each one key, and every code of a race holds the
\* amount parsed from the last observation of that race and code: unknown
\* when that observation's text is empty or unparseable, whatever an earlier
\* observation gave.
C21_UltimaObservacion ==
    FinLista =>
        /\ DOMAIN datos_pdf = {entrada[k].carrera : k \in 1..Len(entrada)}
        /\ UltimaEscrituraDeMontos

\* A known amount followed by an empty one for the same race and code: the
\* stored amount is unknown.
C21_Testigo ==
    /\ FinLista
    /\ \E n \in DOMAIN datos_pdf, c \in CodigosObservados :
           \E i, j \in ObservacionesDeCodigo(n, c) :
               /\ i < j
               /\ j = Max(ObservacionesDeCodigo(n, c))
               /\ MontoObservado(entrada[i].valor) # NULL
               /\ entrada[j].valor = << >>
               /\ datos_pdf[n].apuestas[Texto(c)] = NULL

\* C30: the horse count of a race is the one of its first observation,
\* whatever the later observations of the race carry, while the amounts of
\* the race are those of the last observations.
C30_CaballosPrimeraObservacion ==
    FinLista =>
        /\ \A n \in DOMAIN datos_pdf :
               /\ ObservacionesDe(n) # {}
               /\ datos_pdf[n].caballos = entrada[Min(ObservacionesDe(n))].caballos
        /\ UltimaEscrituraDeMontos

\* Two observations of a race and code with different horse counts and
\* different amounts: the count is the first one, the amount the last one.
C30_Testigo ==
    /\ FinLista
    /\ \E n \in DOMAIN datos_pdf, c \in CodigosObservados :
           \E i, j \in ObservacionesDeCodigo(n, c) :
               /\ i = Min(ObservacionesDe(n))
               /\ j = Max(ObservacionesDeCodigo(n, c))
               /\ entrada[i].caballos # entrada[j].caballos
               /\ MontoObservado(entrada[i].valor) # MontoObservado(entrada[j].valor)
               /\ datos_pdf[n].caballos = entrada[i].caballos
               /\ datos_pdf[n].apuestas[Texto(c)] = MontoObservado(entrada[j].valor)

(***************************************************************************)
(* Races without bets in the canonical structures.                         *)
(***************************************************************************)
\* The pages of the document that carry a race header and at least one horse
\* number of the accepted range.
PaginasConCaballos ==
    {p \in 1..Len(entrada) :
        /\ entrada[p].carrera # NULL
        /\ \E x \in entrada[p].numeros_caballos : 1 <= x /\ x <= 24}

\* The raw observations of race n.
FilasDeLaCarrera(n) == {k \in 1..Len(salida) : salida[k].carrera = n}

\* C22: a race with a horse-count signal and no detected bet is an entry of
\* the canonical structure, with its horse count and an empty bets map, on
\* the document side (a page with a header and horse numbers whose bets
\* block gives no observation) as on the report side (a race whose race rows
\* and continuation lines carry no recognised code).
C22_CarreraSinApuestas ==
    /\ FinDocumento =>
           \A p \in PaginasConCaballos :
               LET n == entrada[p].carrera[1] IN
               FilasDeLaCarrera(n) = {} =>
                   /\ n \in DOMAIN datos_pdf
                   /\ datos_pdf[n].caballos =
                          ObtenerCaballosPorCarrera(entrada, 1, DictVacio)[n]
                   /\ DOMAIN datos_pdf[n].apuestas = {}
    /\ FinReporte =>
           \A n \in CarrerasConFila :
               CodigosDisponibles(n) = {} =>
                   /\ n \in DOMAIN datos_reporte
                   /\ datos_reporte[n].caballos =
                          contenido.lineas[Max(FilasDeCarrera(n))].marcas
                              + contenido.lineas[Max(FilasDeCarrera(n))].scr
                   /\ DOMAIN datos_reporte[n].apuestas = {}

\* The report side of C22 has its case: a race whose only signal is a race
\* row without codes is an entry with an empty bets map.
C22_CasoReporte ==
    /\ FinReporte
    /\ \E n \in CarrerasConFila :
           /\ CodigosDisponibles(n) = {}
           /\ n \in DOMAIN datos_reporte
           /\ datos_reporte[n].caballos > 0
           /\ DOMAIN datos_reporte[n].apuestas = {}

(***************************************************************************)
(* comparar_palermo on documents with two dates: EXA on a line of each     *)
(* date with its own amount, TRI and IMP on a line of their own.           *)
(***************************************************************************)
FechasCompletar == {"01/02/2026", "02/02/2026"}

LineasCompletar ==
    {[fechas |-> << f >>, fila |-> NULL] : f \in FechasCompletar}
    \cup {[fechas |-> << >>,
           fila |-> << [descripcion |-> {"exacta"}, monto |-> Algun(1000000),
                        carreras |-> << 1 >>] >>],
          [fechas |-> << >>,
           fila |-> << [descripcion |-> {"exacta"}, monto |-> Algun(1000021),
                        carreras |-> << MaxCarrera >>] >>],
          [fechas |-> << >>,
           fila |-> << [descripcion |-> {"cuatrifecta", "trifecta"}, monto |-> Algun(1000010),
                        carreras |-> << 1 >>] >>],
          [fechas |-> << >>,
           fila |-> << [descripcion |-> {"trifecta"}, monto |-> Algun(1000010),
                        carreras |-> << 1 >>] >>],
          [fechas |-> << >>,
           fila |-> << [descripcion |-> {"imperfecta"}, monto |-> Algun(1000000),
                        carreras |-> << 1 >>] >>]}

DatosCompletar ==
    {LeerPalermoDesdePdf(<< p >>) : p \in SecuenciasHasta(LineasCompletar, MaxLineasPalermo)}

InitCompletar ==
    /\ motor = "palermo"
    /\ pc = "inicio"
    /\ datos_pdf \in DatosCompletar
    /\ datos_leidos = datos_pdf
    /\ datos_reporte \in ReportesPal
    /\ fecha_objetivo \in {NULL} \cup {Algun(f) : f \in FechasCompletar}
    /\ diferencias = << >>
    /\ coincide_todo = FALSE
    /\ llamadas = 1
    /\ contenido = << >>
    /\ entrada = << >>
    /\ salida = << >>

SpecCompletar == InitCompletar /\ [][NextPal]_vars

(***************************************************************************)
(* Properties of the completion rule of comparar_palermo.                  *)
(***************************************************************************)
\* The codes the rule propagates for a call: EXA and TRI when the summary of
\* the selected date counts exactly one line for them.
CodigosPropagados(datos, fecha) ==
    IF fecha = NULL \/ fecha[1] \notin DOMAIN datos.resumen_por_fecha THEN {}
    ELSE {c \in {"EXA", "TRI"} :
             /\ c \in DOMAIN datos.resumen_por_fecha[fecha[1]]
             /\ datos.resumen_por_fecha[fecha[1]][c].conteo_lineas = 1}

\* The document side the diff must see: what the document gives for the
\* call, and for every race of the report each propagated code the race does
\* not have, with the amount of the code's line.
ApuestasEsperadas(datos, rep, fecha) ==
    LET base == ApuestasPdfInicial(datos, fecha)
        propagados == CodigosPropagados(datos, fecha)
        delDocumento(n) == IF n \in DOMAIN base THEN DOMAIN base[n] ELSE {}
    IN  [n \in DOMAIN base \cup (IF propagados # {} THEN DOMAIN rep ELSE {}) |->
            [c \in delDocumento(n) \cup (IF n \in DOMAIN rep THEN propagados ELSE {}) |->
                IF c \in delDocumento(n) THEN base[n][c]
                ELSE Algun(datos.resumen_por_fecha[fecha[1]][c].valor)]]

\* C23: the discrepancies a call of comparar_palermo returns are those of
\* the document side completed by the rule: with a selected date, EXA and
\* TRI, each when recorded on exactly one line of that date, are given with
\* that line's amount to every race of the report that lacks them on the
\* document side; a race that has the code from the document keeps its
\* amount; a code on no line or on several lines, any other code, and every
\* code when no date is selected, is not propagated.
C23_ReglaDeCompletado ==
    [][CompararPalermo =>
          LET esperado == ApuestasEsperadas(datos_pdf, datos_reporte, fecha_objetivo)
          IN  /\ diferencias' \in
                     DiferenciasPalDesde(esperado, datos_reporte,
                                         Sorted(DOMAIN esperado \cup DOMAIN datos_reporte), 1)
              /\ (fecha_objetivo # NULL
                  /\ fecha_objetivo[1] \in DOMAIN datos_pdf.apuestas_por_fecha)
                 => datos_pdf'.apuestas_por_fecha[fecha_objetivo[1]] = esperado]_vars

\* A first call with the second date selected, where EXA is on one line of
\* each date with different amounts and the report has a race the document
\* lacks for that date: the race got EXA with the amount of the selected
\* date's line.
C23_Testigo ==
    /\ motor = "palermo" /\ pc = "fin" /\ llamadas = 1
    /\ fecha_objetivo = Algun("02/02/2026")
    /\ DOMAIN datos_leidos.resumen_por_fecha = FechasCompletar
    /\ LET antes == datos_leidos.apuestas_por_fecha["02/02/2026"]
           despues == datos_pdf.apuestas_por_fecha["02/02/2026"]
           resumen == datos_leidos.resumen_por_fecha
       IN  /\ "EXA" \in DOMAIN resumen["01/02/2026"]
           /\ "EXA" \in DOMAIN resumen["02/02/2026"]
           /\ resumen["02/02/2026"]["EXA"].conteo_lineas = 1
           /\ resumen["01/02/2026"]["EXA"].valor # resumen["02/02/2026"]["EXA"].valor
           /\ \E n \in DOMAIN datos_reporte :
                  /\ n \notin DOMAIN antes
                  /\ n \in DOMAIN despues
                  /\ despues[n] = [c \in {"EXA"} |-> Algun(resumen["02/02/2026"]["EXA"].valor)]

\* A first call where IMP and TRI are each on one line of the selected date
\* for race 1 and the report has another race: that race got TRI and not IMP.
C23_TestigoOtroCodigo ==
    /\ motor = "palermo" /\ pc = "fin" /\ llamadas = 1
    /\ fecha_objetivo # NULL
    /\ fecha_objetivo[1] \in DOMAIN datos_leidos.resumen_por_fecha
    /\ LET resumen == datos_leidos.resumen_por_fecha[fecha_objetivo[1]]
           despues == datos_pdf.apuestas_por_fecha[fecha_objetivo[1]]
       IN  /\ {"IMP", "TRI"} \subseteq DOMAIN resumen
           /\ resumen["IMP"].conteo_lineas = 1
           /\ resumen["TRI"].conteo_lineas = 1
           /\ \E n \in DOMAIN datos_reporte :
                  /\ n \notin DOMAIN datos_leidos.apuestas_por_fecha[fecha_objetivo[1]]
                  /\ DOMAIN despues[n] = {"TRI"}

\* A first call where EXA is on two lines of the selected date: a race of
\* the report that the document lacks for that date is not completed.
C23_TestigoDosLineas ==
    /\ motor = "palermo" /\ pc = "fin" /\ llamadas = 1
    /\ fecha_objetivo # NULL
    /\ fecha_objetivo[1] \in DOMAIN datos_leidos.resumen_por_fecha
    /\ LET resumen == datos_leidos.resumen_por_fecha[fecha_objetivo[1]]
           despues == datos_pdf.apuestas_por_fecha[fecha_objetivo[1]]
       IN  /\ DOMAIN resumen = {"EXA"}
           /\ resumen["EXA"].conteo_lineas = 2
           /\ \E n \in DOMAIN datos_reporte : n \notin DOMAIN despues

(***************************************************************************)
(* _leer_palermo_desde_pdf on documents of several pages (lines 876-1002). *)
(***************************************************************************)
\* The lines explored: a date alone, a row alone, a row with a date on its
\* own line, a row with two dates on its line, and a row whose description
\* maps to no code.
LineasLector ==
    {[fechas |-> << "01/02/2026" >>, fila |-> NULL],
     [fechas |-> << "02/02/2026" >>, fila |-> NULL],
     [fechas |-> << >>,
      fila |-> << [descripcion |-> {"exacta"}, monto |-> Algun(1000000),
                   carreras |-> << 1 >>] >>],
     [fechas |-> << "02/02/2026" >>,
      fila |-> << [descripcion |-> {"imperfecta"}, monto |-> Algun(1000010),
                   carreras |-> << 1, MaxCarrera >>] >>],
     [fechas |-> << "02/02/2026", "01/02/2026" >>,
      fila |-> << [descripcion |-> {"cuatrifecta", "trifecta"}, monto |-> Algun(1000021),
                   carreras |-> << MaxCarrera >>] >>],
     [fechas |-> << >>,
      fila |-> << [descripcion |-> {"otra"}, monto |-> Algun(1000000),
                   carreras |-> << 1 >>] >>]}

PaginasLector == SecuenciasHasta(LineasLector, MaxLineasPagina)

InitLector ==
    /\ motor = "lector_palermo"
    /\ pc = "inicio"
    /\ entrada \in SecuenciasHasta(PaginasLector, MaxPaginas)
    /\ salida = << >>
    /\ contenido = << >>
    /\ datos_pdf = << >>
    /\ datos_reporte = << >>
    /\ fecha_objetivo = NULL
    /\ diferencias = << >>
    /\ coincide_todo = FALSE
    /\ datos_leidos = << >>
    /\ llamadas = 1

\* Lines 876-1002.
LeerPalermo ==
    /\ motor = "lector_palermo"
    /\ pc = "inicio"
    /\ salida' = LeerPalermoDesdePdf(entrada)
    /\ pc' = "fin"
    /\ UNCHANGED <<motor, datos_pdf, datos_reporte, fecha_objetivo, diferencias,
                   coincide_todo, datos_leidos, llamadas, contenido, entrada>>

SpecLector == InitLector /\ [][LeerPalermo]_vars

(***************************************************************************)
(* Properties of the date tracking of _leer_palermo_desde_pdf.             *)
(***************************************************************************)
FinLector == motor = "lector_palermo" /\ pc = "fin"

\* The lines of the document in scan order, each with its page.
RECURSIVE LineasEnOrden(_, _)
LineasEnOrden(paginas, p) ==
    IF p > Len(paginas) THEN << >>
    ELSE [k \in 1..Len(paginas[p]) |-> [pagina |-> p, linea |-> paginas[p][k]]]
         \o LineasEnOrden(paginas, p + 1)

\* A row that passes every test of lines 953-976 but the one on the date.
FilaBienFormada(linea) ==
    /\ linea.fila # NULL
    /\ MapearNombreApuestaPalermo(linea.fila[1].descripcion) # SinCodigo
    /\ linea.fila[1].monto # NULL
    /\ linea.fila[1].carreras # << >>

\* The positions up to k, or up to k on the page of line k, with a date.
ConFechaHasta(orden, k) == {j \in 1..k : orden[j].linea.fechas # << >>}

ConFechaEnPaginaHasta(orden, k) ==
    {j \in ConFechaHasta(orden, k) : orden[j].pagina = orden[k].pagina}

\* The last date token of line j.
UltimaFecha(orden, j) == orden[j].linea.fechas[Len(orden[j].linea.fechas)]

\* The row of line k is stored under date f: each of its races has its code
\* under f, and the summary of f counts its races for the code.
GuardadaBajo(orden, k, f) ==
    LET fila == orden[k].linea.fila[1]
        codigo == MapearNombreApuestaPalermo(fila.descripcion)
    IN  /\ f \in DOMAIN salida.apuestas_por_fecha
        /\ \A x \in 1..Len(fila.carreras) :
               /\ fila.carreras[x] \in DOMAIN salida.apuestas_por_fecha[f]
               /\ codigo \in DOMAIN salida.apuestas_por_fecha[f][fila.carreras[x]]
        /\ codigo \in DOMAIN salida.resumen_por_fecha[f]

\* The number of rows stored under date f for a code, when the date of a
\* row is given by Vigente.
FilasCon(orden, f, codigo, Vigente(_, _)) ==
    Cardinality({k \in 1..Len(orden) :
        /\ FilaBienFormada(orden[k].linea)
        /\ MapearNombreApuestaPalermo(orden[k].linea.fila[1].descripcion) = codigo
        /\ Vigente(orden, k) # {}
        /\ UltimaFecha(orden, Max(Vigente(orden, k))) = f})

\* The rows are stored under the dates Vigente gives them, and only there.
FilasBajoFecha(Vigente(_, _)) ==
    LET orden == LineasEnOrden(entrada, 1) IN
    /\ \A k \in 1..Len(orden) :
           FilaBienFormada(orden[k].linea) /\ Vigente(orden, k) # {}
               => GuardadaBajo(orden, k, UltimaFecha(orden, Max(Vigente(orden, k))))
    /\ \A f \in DOMAIN salida.resumen_por_fecha :
           \A codigo \in DOMAIN salida.resumen_por_fecha[f] :
               salida.resumen_por_fecha[f][codigo].conteo_lineas
                   = FilasCon(orden, f, codigo, Vigente)
    /\ \A f \in {"01/02/2026", "02/02/2026"}, codigo \in {"EXA", "IMP", "CUA"} :
           FilasCon(orden, f, codigo, Vigente) > 0
               => /\ f \in DOMAIN salida.resumen_por_fecha
                  /\ codigo \in DOMAIN salida.resumen_por_fecha[f]

\* C24: the current date of a line is the last date token seen in the scan
\* of the document's pages up to and including that line; every well-formed
\* row that has a current date is stored under it, so a row is dropped for
\* lack of a date only when no date was seen earlier in the scan.
C24_FechaMasReciente ==
    FinLector => FilasBajoFecha(ConFechaHasta)

\* What the function does: the current date of a line is the last date
\* token seen on the page of that line, up to and including the line.
C24_FechaDeLaPagina ==
    FinLector => FilasBajoFecha(ConFechaEnPaginaHasta)

\* A well-formed row on a second page that has no date before it, after a
\* first page with a date: nothing is stored.
C24_FilaPerdida ==
    /\ FinLector
    /\ Len(entrada) = 2
    /\ entrada[1] = << [fechas |-> << "01/02/2026" >>, fila |-> NULL] >>
    /\ Len(entrada[2]) = 1
    /\ FilaBienFormada(entrada[2][1])
    /\ entrada[2][1].fechas = << >>
    /\ salida.apuestas_por_fecha = DictVacio

(***************************************************************************)
(* obtener_apuestas_por_carrera on one page (lines 277-310): the matches   *)
(* of the bets block that the classification of a fragment distinguishes.  *)
(***************************************************************************)
FragmentosClasificados ==
    Fragmentos \cup
    {Fragmento(<< "G", "a", "n", "a", "d", "o", "r", " ", "2", "d", "o", ".", "P", "a", "s", "e", ",", " ", "T", "r", "i", "p", "l", "o", " ", "F", "i", "n", "a", "l" >>,
               << "3" >>),
     Fragmento(<< "G", "a", "n", "a", "d", "o", "r", ",", " ", ",", " ", "S", "e", "g", "u", "n", "d", "o" >>,
               << "2" >>),
     Fragmento(<< "T", "r", "i", "p", "l", "o", " ", "F", "i", "n", "a", "l", ",", " ", "E", "x", "a", "c", "t", "a" >>,
               << "5", "0", "0" >>),
     Fragmento(<< "E", "x", "a", "c", "t", "a", ",", " ", "T", "r", "i", "p", "l", "o", " ", "F", "i", "n", "a", "l" >>,
               << "5", "0", "0" >>),
     Fragmento(<< "G", "A", "N", "A", "D", "O", "R", ",", " ", "S", "e", "g", "u", "n", "d", "o" >>,
               << "2" >>),
     Fragmento(<< "," >>,
               << "5" >>),
     Fragmento(<< "E", "x", "a", "c", "t", "a", ",", " ", "," >>,
               << "7" >>),
     Fragmento(<< "C", "u", "a", "t", "e", "r", "n", "a", " ", "F", "i", "n", "a", "l", " ", "1", "e", "r", ".", "P", "a", "s", "e" >>,
               << "9" >>)}

InitFragmentos ==
    /\ motor = "documento"
    /\ pc = "inicio"
    /\ entrada \in {<< [carrera |-> Algun(c), numeros_caballos |-> ns, fragmentos |-> fs] >> :
                        c \in Carreras, ns \in {{}, {MaxCaballos + 1}},
                        fs \in SecuenciasHasta(FragmentosClasificados, MaxFragmentos)}
    /\ salida = << >>
    /\ contenido = << >>
    /\ datos_pdf = << >>
    /\ datos_reporte = << >>
    /\ fecha_objetivo = NULL
    /\ diferencias = << >>
    /\ coincide_todo = FALSE
    /\ datos_leidos = << >>
    /\ llamadas = 1

SpecFragmentos == InitFragmentos /\ [][LeerDocumento]_vars

(***************************************************************************)
(* Properties of the classification of the fragments of a bets block.      *)
(***************************************************************************)
\* The name of a match as the extractor keeps it (line 282).
NombreDe(fragmento) == RStripComa(Strip(fragmento.nombre))

ConGanador(fragmento) ==
    Contiene(NombreDe(fragmento), << "G", "a", "n", "a", "d", "o", "r" >>)

\* The text after the last comma of a name, the whole name without commas.
UltimoTramo(nombre) ==
    LET comas == {k \in 1..Len(nombre) : nombre[k] = ","}
    IN  IF comas = {} THEN nombre
        ELSE Strip(SubSeq(nombre, Max(comas) + 1, Len(nombre)))

\* The observations expected from the matches of a page, in order: those
\* with an amount come from the matches without "Ganador", those without
\* amount from the sub-names of the matches with "Ganador".
RECURSIVE ConMontoEsperadas(_, _, _, _)
ConMontoEsperadas(fragmentos, k, num_carrera, cantidad_caballos) ==
    IF k > Len(fragmentos) THEN << >>
    ELSE LET tramo == UltimoTramo(NombreDe(fragmentos[k])) IN
         (IF /\ NombreDe(fragmentos[k]) # << >>
             /\ ~ConGanador(fragmentos[k])
             /\ ~EsApuestaExcluida(tramo)
          THEN << [carrera |-> num_carrera, caballos |-> cantidad_caballos,
                   codigo |-> AbreviarApuesta(NormalizarNombreApuesta(tramo)),
                   valor |-> Strip(fragmentos[k].valor)] >>
          ELSE << >>)
         \o ConMontoEsperadas(fragmentos, k + 1, num_carrera, cantidad_caballos)

RECURSIVE SubNombres(_, _)
SubNombres(partes, k) ==
    IF k > Len(partes) THEN << >>
    ELSE (IF Strip(partes[k]) # << >> THEN << Strip(partes[k]) >> ELSE << >>)
         \o SubNombres(partes, k + 1)

RECURSIVE SinMontoEsperadas(_, _, _, _)
SinMontoEsperadas(fragmentos, k, num_carrera, cantidad_caballos) ==
    IF k > Len(fragmentos) THEN << >>
    ELSE LET nombres == IF ConGanador(fragmentos[k])
                        THEN SubNombres(SplitSep(NombreDe(fragmentos[k]), ","), 1)
                        ELSE << >>
         IN  [x \in 1..Len(nombres) |->
                 [carrera |-> num_carrera, caballos |-> cantidad_caballos,
                  codigo |-> AbreviarApuesta(NormalizarNombreApuesta(nombres[x])),
                  valor |-> << >>]]
             \o SinMontoEsperadas(fragmentos, k + 1, num_carrera, cantidad_caballos)

ConMonto(fila) == fila.valor # << >>
SinMonto(fila) == fila.valor = << >>

CaballosDePagina(pagina) ==
    IF pagina.numeros_caballos = {} THEN 0 ELSE Max(pagina.numeros_caballos)

\* C25: the observations with an amount are, in the order of the matches,
\* one per match without "Ganador" whose last comma-delimited segment is not
\* excluded, with the race, the horse count, the abbreviated normalised
\* name of that segment and the amount; the segments before the last one
\* neither suppress it nor give observations.
C25_UltimoTramoClasificado ==
    FinDocumento /\ Len(entrada) = 1 /\ entrada[1].carrera # NULL =>
        SelectSeq(salida, ConMonto) =
            ConMontoEsperadas(entrada[1].fragmentos, 1, entrada[1].carrera[1],
                              CaballosDePagina(entrada[1]))

\* "Cuaterna 2do.Pase, Cadena 1er.Pase $ 200" gives CAD with 200, and
\* "Exacta, Triplo Final $ 500" gives nothing.
C25_Testigo ==
    /\ FinDocumento /\ Len(entrada) = 1
    /\ Len(entrada[1].fragmentos) = 2
    /\ UltimoTramo(NombreDe(entrada[1].fragmentos[1])) # NombreDe(entrada[1].fragmentos[1])
    /\ EsApuestaExcluida(NombreDe(entrada[1].fragmentos[1]))
    /\ ~EsApuestaExcluida(UltimoTramo(NombreDe(entrada[1].fragmentos[1])))
    /\ UltimoTramo(NombreDe(entrada[1].fragmentos[2])) # NombreDe(entrada[1].fragmentos[2])
    /\ EsApuestaExcluida(UltimoTramo(NombreDe(entrada[1].fragmentos[2])))
    /\ ~ConGanador(entrada[1].fragmentos[2])
    /\ Len(salida) = 1
    /\ salida[1].codigo = << "C", "A", "D" >>
    /\ salida[1].valor = << "2", "0", "0" >>

\* C26: the observations without amount are, in order, one per non-empty
\* sub-name of each match with "Ganador", with the abbreviated normalised
\* sub-name as code; no sub-name is left out by the exclusion rules and the
\* amount of the match is stored for none of them.
C26_GanadorSinMonto ==
    FinDocumento /\ Len(entrada) = 1 /\ entrada[1].carrera # NULL =>
        SelectSeq(salida, SinMonto) =
            SinMontoEsperadas(entrada[1].fragmentos, 1, entrada[1].carrera[1],
                              CaballosDePagina(entrada[1]))

\* "Ganador 2do.Pase, Triplo Final $ 3" gives GAN and TPL, both without
\* amount, although both sub-names are excluded names.
C26_Testigo ==
    /\ FinDocumento /\ Len(entrada) = 1
    /\ Len(entrada[1].fragmentos) = 1
    /\ ConGanador(entrada[1].fragmentos[1])
    /\ LET partes == SplitSep(NombreDe(entrada[1].fragmentos[1]), ",")
       IN  /\ Len(partes) = 2
           /\ EsApuestaExcluida(Strip(partes[1]))
           /\ EsApuestaExcluida(Strip(partes[2]))
    /\ Len(salida) = 2
    /\ salida[1].codigo = << "G", "A", "N" >> /\ salida[1].valor = << >>
    /\ salida[2].codigo = << "T", "P", "L" >> /\ salida[2].valor = << >>

(***************************************************************************)
(* The availability pass of _normalizar_reporte, statement by statement    *)
(* (lines 414-450).  entrada is the list lineas; salida holds the locals   *)
(* of the pass: i, j, num_carrera, caballos_por_carrera and                *)
(* apuestas_por_carrera.  pc is "externo" at the test of the outer while   *)
(* (line 416) and "interno" at the test of the inner while (line 435).     *)
(* Positions are counted from 1.                                           *)
(***************************************************************************)
LineaRelleno == LineaTexto({}, TRUE, FALSE)

\* What follows the fillers: a continuation line with a code, and the four
\* lines that stop the scan, each with a code of its own where it can.
ElementosPasada ==
    {LineaTexto({"TRI"}, TRUE, FALSE),
     LineaBlanca,
     LineaTexto({"EXA"}, FALSE, FALSE),
     LineaTexto({"DOB"}, TRUE, TRUE),
     LineaCarrera(MaxCarrera, {"IMP"}, MaxCaballos, 0)}

\* A race row of race 1, up to MaxRelleno fillers, an element, up to one
\* filler and a second element.
ListasPasada ==
    {<< LineaCarrera(1, {"GAN"}, MaxCaballos, 1) >>
        \o [k \in 1..k1 |-> LineaRelleno] \o << a >>
        \o [k \in 1..k2 |-> LineaRelleno] \o << b >> :
        k1 \in 0..MaxRelleno, k2 \in 0..1,
        a \in ElementosPasada, b \in ElementosPasada}

InitPasada ==
    /\ motor = "pasada"
    /\ pc = "externo"
    /\ entrada \in ListasPasada
    /\ salida = [i |-> 1, j |-> 1, num_carrera |-> 0,
                 caballos_por_carrera |-> DictVacio, apuestas_por_carrera |-> DictVacio]
    /\ contenido = << >>
    /\ datos_pdf = << >>
    /\ datos_reporte = << >>
    /\ fecha_objetivo = NULL
    /\ diferencias = << >>
    /\ coincide_todo = FALSE
    /\ datos_leidos = << >>
    /\ llamadas = 1

\* SigueLaBusqueda without the limit of lines.
SigueLaBusqueda_SinLimite(lineas, i, j) ==
    /\ j <= Len(lineas)
    /\ ~lineas[j].blanca
    /\ lineas[j].sangria
    /\ ~lineas[j].numero

\* Lines 435-445: the inner while goes on with line j: the test of the
\* while holds and no break is taken.
SigueLaBusqueda(lineas, i, j) ==
    /\ j <= Len(lineas)
    /\ (j - (i + 1)) < max_lineas_siguientes
    /\ ~lineas[j].blanca
    /\ lineas[j].sangria
    /\ ~lineas[j].numero

SinCambiosPasada ==
    UNCHANGED <<motor, datos_pdf, datos_reporte, fecha_objetivo, diferencias,
                coincide_todo, datos_leidos, llamadas, contenido, entrada>>

\* Lines 416-433: a race row sets the horse count, adds its codes and starts
\* the scan of the following lines.
FilaDeCarrera ==
    /\ motor = "pasada" /\ pc = "externo"
    /\ salida.i <= Len(entrada)
    /\ entrada[salida.i].carrera
    /\ LET linea == entrada[salida.i]
           previas == Get(salida.apuestas_por_carrera, linea.num, {})
       IN  salida' = [salida EXCEPT
                        !.num_carrera = linea.num,
                        !.caballos_por_carrera = Put(@, linea.num, linea.marcas + linea.scr),
                        !.apuestas_por_carrera = Put(@, linea.num, previas \cup linea.codigos),
                        !.j = salida.i + 1]
    /\ pc' = "interno"
    /\ SinCambiosPasada

\* Lines 416-419 and 450: a line that is no race row.
OtraLinea ==
    /\ motor = "pasada" /\ pc = "externo"
    /\ salida.i <= Len(entrada)
    /\ ~entrada[salida.i].carrera
    /\ salida' = [salida EXCEPT !.i = @ + 1]
    /\ pc' = "externo"
    /\ SinCambiosPasada

\* Lines 435-449: one more following line is inspected and continues the row.
LineaSiguiente ==
    /\ motor = "pasada" /\ pc = "interno"
    /\ SigueLaBusqueda(entrada, salida.i, salida.j)
    /\ salida' = [salida EXCEPT
                    !.apuestas_por_carrera =
                        Put(@, salida.num_carrera,
                            @[salida.num_carrera] \cup entrada[salida.j].codigos),
                    !.j = @ + 1]
    /\ pc' = "interno"
    /\ SinCambiosPasada

\* Lines 435-445 and 450: the scan ends, at the end of the list, at the
\* limit of lines or at a break.
FinDeLaBusqueda ==
    /\ motor = "pasada" /\ pc = "interno"
    /\ ~SigueLaBusqueda(entrada, salida.i, salida.j)
    /\ salida' = [salida EXCEPT !.i = @ + 1]
    /\ pc' = "externo"
    /\ SinCambiosPasada

\* Line 416: the outer loop ends.
FinDeLaPasada ==
    /\ motor = "pasada" /\ pc = "externo"
    /\ ~(salida.i <= Len(entrada))
    /\ pc' = "fin"
    /\ UNCHANGED salida
    /\ SinCambiosPasada

NextPasada ==
    FilaDeCarrera \/ OtraLinea \/ LineaSiguiente \/ FinDeLaBusqueda \/ FinDeLaPasada

\* The interpreter runs the statements of the pass one after the other.
SpecPasada == InitPasada /\ [][NextPasada]_vars /\ WF_vars(NextPasada)

(***************************************************************************)
(* Properties of the availability pass.                                    *)
(***************************************************************************)
FinPasada == motor = "pasada" /\ pc = "fin"

FilasDeLaLista == {i \in 1..Len(entrada) : entrada[i].carrera}

\* A line that stops the scan of the lines that follow a race row.
Detiene(linea) == linea.blanca \/ ~linea.sangria \/ linea.numero

\* The lines inspected after the race row at i that come before the stop:
\* among the 15 lines that follow it, those with no stopping line up to them.
AntesDeLaParada(i) ==
    {j \in (i + 1)..Len(entrada) :
        /\ j <= i + 15
        /\ \A k \in (i + 1)..j : ~Detiene(entrada[k])}

\* The codes the race row at i gives its race.
CodigosDeLaFila(i) ==
    entrada[i].codigos \cup UNION {entrada[j].codigos : j \in AntesDeLaParada(i)}

\* At the end of the pass every race has the codes of its race rows and of
\* the lines inspected before the stop of each, and no other code.
CodigosAntesDeLaParada ==
    FinPasada =>
        /\ DOMAIN salida.apuestas_por_carrera = {entrada[i].num : i \in FilasDeLaLista}
        /\ \A n \in DOMAIN salida.apuestas_por_carrera :
               salida.apuestas_por_carrera[n] =
                   UNION {CodigosDeLaFila(i) : i \in {k \in FilasDeLaLista : entrada[k].num = n}}

\* The pass computes what _normalizar_reporte is modelled with.
PasadaComoFuncion ==
    FinPasada =>
        [caballos_por_carrera |-> salida.caballos_por_carrera,
         apuestas_por_carrera |-> salida.apuestas_por_carrera]
        = PasadaDisponibilidad(entrada, 1,
              [caballos_por_carrera |-> DictVacio, apuestas_por_carrera |-> DictVacio])

\* C27: the scan after a race row inspects at most 15 lines and stops at the
\* first blank, non-indented or numbered line; the codes of the lines
\* inspected before the stop go to the race of that row and to no other
\* race, the codes of the stopping line and of the lines after it, or after
\* the fifteenth, do not; and the pass ends on every list of lines.
C27_BusquedaAcotada ==
    /\ [](pc = "interno" => salida.j - salida.i <= max_lineas_siguientes + 1)
    /\ []CodigosAntesDeLaParada
    /\ <>FinPasada

\* A race row followed by sixteen continuation lines, the last with TRI, and
\* then by a race row of another race: the scan stopped after the fifteenth
\* line and TRI went to no race.
C27_Testigo ==
    /\ FinPasada
    /\ Len(entrada) >= 18
    /\ \A k \in 2..17 : ~Detiene(entrada[k])
    /\ entrada[17].codigos = {"TRI"}
    /\ entrada[18].carrera
    /\ salida.apuestas_por_carrera[1] = {"GAN"}
    /\ \A n \in DOMAIN salida.apuestas_por_carrera :
           "TRI" \notin salida.apuestas_por_carrera[n]

\* A race row, a continuation line with TRI, a numbered line with DOB: TRI
\* went to the race and DOB did not.
C27_TestigoParada ==
    /\ FinPasada
    /\ Len(entrada) = 3
    /\ entrada[2].codigos = {"TRI"} /\ ~Detiene(entrada[2])
    /\ entrada[3].codigos = {"DOB"} /\ entrada[3].numero
    /\ salida.apuestas_por_carrera[1] = {"GAN", "TRI"}

(***************************************************************************)
(* _mapear_nombre_apuesta_palermo on the text of a description (lines      *)
(* 828-873), and the row of _leer_palermo_desde_pdf that carries it (lines *)
(* 961-967).                                                               *)
(***************************************************************************)
\* str.replace("  ", " "): the occurrences are replaced from the left
\* without overlap.
RECURSIVE DosBlancosAUno(_)
DosBlancosAUno(s) ==
    IF Len(s) < 2 THEN s
    ELSE IF s[1] = " " /\ s[2] = " "
         THEN << " " >> \o DosBlancosAUno(SubSeq(s, 3, Len(s)))
    ELSE << s[1] >> \o DosBlancosAUno(Tail(s))

\* The function with the test of "trifecta" before that of "cuatrifecta".
MapearNombreApuestaPalermoTexto_TrifectaPrimero(descripcion) ==
    LET texto == DosBlancosAUno(Lower(Strip(descripcion)))
    IN  IF descripcion = << >> THEN SinCodigo
        ELSE IF Contiene(texto, << "t", "r", "i", "f", "e", "c", "t", "a" >>) THEN "TRI"
        ELSE IF Contiene(texto, << "c", "u", "a", "t", "r", "i", "f", "e", "c", "t", "a" >>) THEN "CUA"
        ELSE IF Contiene(texto, << "d", "o", "b", "l", "e", " ", "e", "x", "t", "r", "a" >>) THEN "DOB"
        ELSE IF Contiene(texto, << "d", "o", "b", "l", "e" >>) THEN "DOB"
        ELSE IF \/ Contiene(texto, << "5", " ", "y", " ", "6" >>)
                \/ Contiene(texto, << "5", "y", "6" >>)
                \/ Contiene(texto, << "5", " ", "&", " ", "6" >>)
             THEN "CAD"
        ELSE IF \/ Contiene(texto, << "p", "i", "c", "k", " ", "c", "u", "a", "t", "r", "o" >>)
                \/ Contiene(texto, << "p", "i", "c", "k", " ", "4" >>)
             THEN "QTN"
        ELSE IF \/ Contiene(texto, << "p", "i", "c", "k", " ", "c", "i", "n", "c", "o" >>)
                \/ Contiene(texto, << "p", "i", "c", "k", " ", "5" >>)
             THEN "QTP"
        ELSE IF Contiene(texto, << "e", "x", "a", "c", "t", "a" >>) THEN "EXA"
        ELSE IF Contiene(texto, << "t", "r", "i", "p", "l", "o" >>) THEN "TPL"
        ELSE IF Contiene(texto, << "i", "m", "p", "e", "r", "f", "e", "c", "t", "a" >>) THEN "IMP"
        ELSE SinCodigo

\* Lines 842-873.
MapearNombreApuestaPalermoTexto(descripcion) ==
    LET texto == DosBlancosAUno(Lower(Strip(descripcion)))
    IN  IF descripcion = << >> THEN SinCodigo
        ELSE IF Contiene(texto, << "c", "u", "a", "t", "r", "i", "f", "e", "c", "t", "a" >>) THEN "CUA"
        ELSE IF Contiene(texto, << "t", "r", "i", "f", "e", "c", "t", "a" >>) THEN "TRI"
        ELSE IF Contiene(texto, << "d", "o", "b", "l", "e", " ", "e", "x", "t", "r", "a" >>) THEN "DOB"
        ELSE IF Contiene(texto, << "d", "o", "b", "l", "e" >>) THEN "DOB"
        ELSE IF \/ Contiene(texto, << "5", " ", "y", " ", "6" >>)
                \/ Contiene(texto, << "5", "y", "6" >>)
                \/ Contiene(texto, << "5", " ", "&", " ", "6" >>)
             THEN "CAD"
        ELSE IF \/ Contiene(texto, << "p", "i", "c", "k", " ", "c", "u", "a", "t", "r", "o" >>)
                \/ Contiene(texto, << "p", "i", "c", "k", " ", "4" >>)
             THEN "QTN"
        ELSE IF \/ Contiene(texto, << "p", "i", "c", "k", " ", "c", "i", "n", "c", "o" >>)
                \/ Contiene(texto, << "p", "i", "c", "k", " ", "5" >>)
             THEN "QTP"
        ELSE IF Contiene(texto, << "e", "x", "a", "c", "t", "a" >>) THEN "EXA"
        ELSE IF Contiene(texto, << "t", "r", "i", "p", "l", "o" >>) THEN "TPL"
        ELSE IF Contiene(texto, << "i", "m", "p", "e", "r", "f", "e", "c", "t", "a" >>) THEN "IMP"
        ELSE SinCodigo

\* The substrings the function tests, by the name the description of a row
\* carries them under.
SubcadenasPalermo ==
    {[clave |-> "cuatrifecta", texto |-> << "c", "u", "a", "t", "r", "i", "f", "e", "c", "t", "a" >>],
     [clave |-> "trifecta", texto |-> << "t", "r", "i", "f", "e", "c", "t", "a" >>],
     [clave |-> "doble extra", texto |-> << "d", "o", "b", "l", "e", " ", "e", "x", "t", "r", "a" >>],
     [clave |-> "doble", texto |-> << "d", "o", "b", "l", "e" >>],
     [clave |-> "5 y 6", texto |-> << "5", " ", "y", " ", "6" >>],
     [clave |-> "5y6", texto |-> << "5", "y", "6" >>],
     [clave |-> "5 & 6", texto |-> << "5", " ", "&", " ", "6" >>],
     [clave |-> "pick cuatro", texto |-> << "p", "i", "c", "k", " ", "c", "u", "a", "t", "r", "o" >>],
     [clave |-> "pick 4", texto |-> << "p", "i", "c", "k", " ", "4" >>],
     [clave |-> "pick cinco", texto |-> << "p", "i", "c", "k", " ", "c", "i", "n", "c", "o" >>],
     [clave |-> "pick 5", texto |-> << "p", "i", "c", "k", " ", "5" >>],
     [clave |-> "exacta", texto |-> << "e", "x", "a", "c", "t", "a" >>],
     [clave |-> "triplo", texto |-> << "t", "r", "i", "p", "l", "o" >>],
     [clave |-> "imperfecta", texto |-> << "i", "m", "p", "e", "r", "f", "e", "c", "t", "a" >>]}

\* The description of a row: the tested substrings its text contains once
\* stripped, lower-cased and with double blanks replaced.
DescripcionDeFila(descripcion) ==
    {s.clave : s \in {t \in SubcadenasPalermo :
                         Contiene(DosBlancosAUno(Lower(Strip(descripcion))), t.texto)}}

\* A page with a date and one row with the description.
PaginaConFila(descripcion) ==
    << [fechas |-> << "01/02/2026" >>,
        fila |-> << [descripcion |-> DescripcionDeFila(descripcion),
                     monto |-> Algun(1000000), carreras |-> << 1 >>] >>] >>

PalabrasPalermo ==
    {<< "C", "U", "A", "T", "R", "I", "F", "E", "C", "T", "A" >>,
     << "T", "r", "i", "f", "e", "c", "t", "a" >>,
     << "d", "o", "b", "l", "e" >>,
     << "e", "x", "t", "r", "a" >>,
     << "5" >>,
     << "y" >>,
     << "6" >>,
     << "5", "y", "6" >>,
     << "&" >>,
     << "p", "i", "c", "k" >>,
     << "c", "u", "a", "t", "r", "o" >>,
     << "c", "i", "n", "c", "o" >>,
     << "4" >>,
     << "e", "x", "a", "c", "t", "a" >>,
     << "T", "r", "i", "p", "l", "o" >>,
     << "i", "m", "p", "e", "r", "f", "e", "c", "t", "a" >>,
     << "o", "t", "r", "a" >>}

\* Descriptions of up to MaxPalabrasPalermo words, separated by one blank
\* or by two, with or without blanks around them.
DescripcionesPalermo ==
    {ini \o Componer(ws, sep) :
        ini \in {<< >>, << " " >>},
        ws \in SecuenciasHasta(PalabrasPalermo, MaxPalabrasPalermo),
        sep \in {<< " " >>, << " ", " " >>}}

InitMapeo ==
    /\ motor = "mapeo_palermo"
    /\ pc = "inicio"
    /\ entrada \in DescripcionesPalermo
    /\ salida = << >>
    /\ contenido = << >>
    /\ datos_pdf = << >>
    /\ datos_reporte = << >>
    /\ fecha_objetivo = NULL
    /\ diferencias = << >>
    /\ coincide_todo = FALSE
    /\ datos_leidos = << >>
    /\ llamadas = 1

\* Lines 828-873 on the description, and lines 932-1002 on a page whose one
\* row carries it.
LlamarMapearNombreApuestaPalermo ==
    /\ motor = "mapeo_palermo"
    /\ pc = "inicio"
    /\ salida' = [codigo |-> MapearNombreApuestaPalermoTexto(entrada),
                  leido |-> LeerPalermoDesdePdf(<< PaginaConFila(entrada) >>)]
    /\ pc' = "fin"
    /\ UNCHANGED <<motor, datos_pdf, datos_reporte, fecha_objetivo, diferencias,
                   coincide_todo, datos_leidos, llamadas, contenido, entrada>>

SpecMapeo == InitMapeo /\ [][LlamarMapearNombreApuestaPalermo]_vars

(***************************************************************************)
(* Properties of _mapear_nombre_apuesta_palermo.                           *)
(***************************************************************************)
FinMapeo == motor = "mapeo_palermo" /\ pc = "fin"

\* The families in their order of priority, each with its spellings.
FamiliasPalermo ==
    << [codigo |-> "CUA", nombres |-> {<< "c", "u", "a", "t", "r", "i", "f", "e", "c", "t", "a" >>}],
       [codigo |-> "TRI", nombres |-> {<< "t", "r", "i", "f", "e", "c", "t", "a" >>}],
       [codigo |-> "DOB", nombres |-> {<< "d", "o", "b", "l", "e" >>}],
       [codigo |-> "CAD", nombres |-> {<< "5", " ", "y", " ", "6" >>, << "5", "y", "6" >>, << "5", " ", "&", " ", "6" >>}],
       [codigo |-> "QTN", nombres |-> {<< "p", "i", "c", "k", " ", "c", "u", "a", "t", "r", "o" >>, << "p", "i", "c", "k", " ", "4" >>}],
       [codigo |-> "QTP", nombres |-> {<< "p", "i", "c", "k", " ", "c", "i", "n", "c", "o" >>, << "p", "i", "c", "k", " ", "5" >>}],
       [codigo |-> "EXA", nombres |-> {<< "e", "x", "a", "c", "t", "a" >>}],
       [codigo |-> "TPL", nombres |-> {<< "t", "r", "i", "p", "l", "o" >>}],
       [codigo |-> "IMP", nombres |-> {<< "i", "m", "p", "e", "r", "f", "e", "c", "t", "a" >>}] >>

\* The description as the rules see it, and the families that occur in it.
Visto(descripcion) == DosBlancosAUno(Lower(Strip(descripcion)))

FamiliasEn(descripcion) ==
    {k \in 1..Len(FamiliasPalermo) :
        \E t \in FamiliasPalermo[k].nombres : Contiene(Visto(descripcion), t)}

\* C28: a description that contains "cuatrifecta" maps to CUA and never to
\* TRI; one that contains "trifecta" and not "cuatrifecta" maps to TRI; when
\* several families occur the first in the order cuatrifecta, trifecta,
\* doble, 5 y 6, pick cuatro, pick cinco, exacta, triplo, imperfecta
\* decides; a description with no family maps to no code and its row is
\* not stored.
C28_PrioridadDeSubcadenas ==
    FinMapeo =>
        /\ Contiene(Lower(entrada), << "c", "u", "a", "t", "r", "i", "f", "e", "c", "t", "a" >>)
               => salida.codigo = "CUA"
        /\ (Contiene(Lower(entrada), << "t", "r", "i", "f", "e", "c", "t", "a" >>)
            /\ ~Contiene(Lower(entrada), << "c", "u", "a", "t", "r", "i", "f", "e", "c", "t", "a" >>))
               => salida.codigo = "TRI"
        /\ FamiliasEn(entrada) # {}
               => salida.codigo = FamiliasPalermo[Min(FamiliasEn(entrada))].codigo
        /\ FamiliasEn(entrada) = {}
               => /\ salida.codigo = SinCodigo
                  /\ salida.leido.apuestas_por_fecha = DictVacio
                  /\ salida.leido.resumen_por_fecha = DictVacio
        /\ salida.codigo # SinCodigo
               => salida.leido.apuestas_por_fecha =
                      [f \in {"01/02/2026"} |->
                          [n \in {1} |-> [c \in {salida.codigo} |-> Algun(1000000)]]]

\* "CUATRIFECTA  Trifecta exacta": three families occur and the first decides.
C28_Testigo ==
    /\ FinMapeo
    /\ Cardinality(FamiliasEn(entrada)) = 3
    /\ {1, 2} \subseteq FamiliasEn(entrada)
    /\ salida.codigo = "CUA"
    /\ DOMAIN salida.leido.apuestas_por_fecha["01/02/2026"][1] = {"CUA"}

\* A description with no family: no code, and the row is not stored.
C28_TestigoSinCodigo ==
    /\ FinMapeo
    /\ entrada # << >>
    /\ FamiliasEn(entrada) = {}
    /\ salida.codigo = SinCodigo
    /\ salida.leido.fechas = << "01/02/2026" >>
    /\ salida.leido.apuestas_por_fecha = DictVacio

\* "pick  cuatro", with two blanks, is seen as "pick cuatro".
C28_TestigoDosBlancos ==
    /\ FinMapeo
    /\ ~Contiene(Lower(entrada), << "p", "i", "c", "k", " ", "c", "u", "a", "t", "r", "o" >>)
    /\ salida.codigo = "QTN"

(***************************************************************************)
(* _normalizar_reporte_palermo (lines 561-659).  Its input is the list of  *)
(* the matches of patron_rsm in the delimited section, as for              *)
(* _normalizar_reporte: none when the section marker is absent.            *)
(***************************************************************************)
\* Lines 606-617: mapeo_rsm.get(tipo_rsm), SinCodigo for a miss.
mapeo_rsm_palermo(tipo_rsm) ==
    IF tipo_rsm \in {"EXA", "TRI", "IMP", "DOB", "TPL", "QTN", "QTP", "CAD", "CUA"}
    THEN tipo_rsm ELSE SinCodigo

\* MaxCarreraRsm looking only at the rows that carry a mapped code and an
\* amount.
RECURSIVE MaxCarreraRsm_SoloUtiles(_, _, _)
MaxCarreraRsm_SoloUtiles(filas, i, max_carrera) ==
    IF i > Len(filas) THEN max_carrera
    ELSE IF \/ filas[i].race_map.todas
            \/ filas[i].valor = NULL
            \/ mapeo_rsm_palermo(filas[i].tipo_rsm) = SinCodigo
         THEN MaxCarreraRsm_SoloUtiles(filas, i + 1, max_carrera)
    ELSE LET carreras == ExpandirRaceMap(filas[i].race_map)
             mayor == Max({carreras[k] : k \in 1..Len(carreras)})
         IN  IF carreras = << >> THEN MaxCarreraRsm_SoloUtiles(filas, i + 1, max_carrera)
             ELSE MaxCarreraRsm_SoloUtiles(filas, i + 1,
                      IF mayor > max_carrera THEN mayor ELSE max_carrera)

\* Lines 620-627: max_carrera after the rows from i on.
RECURSIVE MaxCarreraRsm(_, _, _)
MaxCarreraRsm(filas, i, max_carrera) ==
    IF i > Len(filas) THEN max_carrera
    ELSE IF filas[i].race_map.todas THEN MaxCarreraRsm(filas, i + 1, max_carrera)
    ELSE LET carreras == ExpandirRaceMap(filas[i].race_map)
             mayor == Max({carreras[k] : k \in 1..Len(carreras)})
         IN  IF carreras = << >> THEN MaxCarreraRsm(filas, i + 1, max_carrera)
             ELSE MaxCarreraRsm(filas, i + 1,
                      IF mayor > max_carrera THEN mayor ELSE max_carrera)

\* Lines 654-657.
RECURSIVE AsignarValorPalermo(_, _, _, _, _)
AsignarValorPalermo(valores, carreras, k, codigo, valor) ==
    IF k > Len(carreras) THEN valores
    ELSE AsignarValorPalermo(
             Put(valores, carreras[k],
                 Put(Get(valores, carreras[k], DictVacio), codigo, Algun(valor))),
             carreras, k + 1, codigo, valor)

\* Lines 636-657: valores_por_carrera after the rows from i on.
RECURSIVE PasadaRsmPalermo(_, _, _, _)
PasadaRsmPalermo(filas, i, max_carrera, valores) ==
    IF i > Len(filas) THEN valores
    ELSE LET fila == filas[i]
             codigo_apuesta == mapeo_rsm_palermo(fila.tipo_rsm)
             carreras == IF fila.race_map.todas THEN RangoLista(1, max_carrera)
                         ELSE ExpandirRaceMap(fila.race_map)
         IN  IF codigo_apuesta = SinCodigo
             THEN PasadaRsmPalermo(filas, i + 1, max_carrera, valores)
             ELSE IF fila.valor = NULL
                  THEN PasadaRsmPalermo(filas, i + 1, max_carrera, valores)
             ELSE PasadaRsmPalermo(filas, i + 1, max_carrera,
                      AsignarValorPalermo(valores, carreras, 1, codigo_apuesta, fila.valor[1]))

\* Lines 619-659.
NormalizarReportePalermo(filas) ==
    LET inferida == MaxCarreraRsm(filas, 1, 0)
        max_carrera == IF inferida = 0 THEN 15 ELSE inferida
    IN  PasadaRsmPalermo(filas, 1, max_carrera, DictVacio)

\* A race map whose text int() rejects.
MapaIlegible == [todas |-> FALSE, partes |-> << << NULL >> >>, entero |-> NULL]

\* The stakes rows explored: "ALL", one race, the race after the last one of
\* the model, race 0, a range, an unreadable race map; two mapped codes and
\* one that is not mapped; two amounts and one that is not parsed.
FilasRsmPalermo ==
    {FilaRsm(rm, t, v) :
        rm \in {MapaTodas, MapaUna(1), MapaUna(MaxCarrera + 1), MapaUna(0),
                MapaRango(1, MaxCarrera), MapaIlegible},
        t \in {"EXA", "IMP", "WPS"},
        v \in {Algun(1000000), Algun(1000021), NULL}}

InitReportePalermo ==
    /\ motor = "reporte_palermo"
    /\ pc = "inicio"
    /\ entrada \in SecuenciasHasta(FilasRsmPalermo, MaxFilas)
    /\ salida = << >>
    /\ contenido = << >>
    /\ datos_pdf = << >>
    /\ datos_reporte = << >>
    /\ fecha_objetivo = NULL
    /\ diferencias = << >>
    /\ coincide_todo = FALSE
    /\ datos_leidos = << >>
    /\ llamadas = 1

\* Lines 561-659.
LeerReportePalermo ==
    /\ motor = "reporte_palermo"
    /\ pc = "inicio"
    /\ datos_reporte' = NormalizarReportePalermo(entrada)
    /\ pc' = "fin"
    /\ UNCHANGED <<motor, datos_pdf, fecha_objetivo, diferencias, coincide_todo,
                   datos_leidos, llamadas, contenido, entrada, salida>>

SpecReportePalermo == InitReportePalermo /\ [][LeerReportePalermo]_vars

(***************************************************************************)
(* Properties of _normalizar_reporte_palermo.                              *)
(***************************************************************************)
FinReportePalermo == motor = "reporte_palermo" /\ pc = "fin"

\* The races an explicit race map names.
CarrerasNombradas(race_map) ==
    {ExpandirRaceMap(race_map)[k] : k \in 1..Len(ExpandirRaceMap(race_map))}

\* The race numbers that appear in the race maps other than "ALL", whatever
\* the code and the amount of their rows.
CarrerasFueraDeAll ==
    UNION {CarrerasNombradas(entrada[k].race_map) :
              k \in {x \in 1..Len(entrada) : ~entrada[x].race_map.todas}}

\* The highest of them, 15 when there is none.
UltimaCarrera == IF CarrerasFueraDeAll = {} THEN 15 ELSE Max(CarrerasFueraDeAll)

\* The highest of them when one is positive, 15 otherwise.
UltimaCarreraPositiva ==
    IF \A n \in CarrerasFueraDeAll : n <= 0 THEN 15 ELSE Max(CarrerasFueraDeAll)

\* The races the row at k gives its amount to when "ALL" stands for
\* 1..ultima.
CarrerasDeLaFila(k, ultima) ==
    IF entrada[k].race_map.todas THEN 1..ultima
    ELSE CarrerasNombradas(entrada[k].race_map)

\* The rows with a mapped code c and an amount that give it to race n.
FilasPalermoQueAsignan(n, c, ultima) ==
    {k \in 1..Len(entrada) :
        /\ entrada[k].valor # NULL
        /\ entrada[k].tipo_rsm = c
        /\ c \in {"EXA", "TRI", "IMP", "DOB", "TPL", "QTN", "QTP", "CAD", "CUA"}
        /\ n \in CarrerasDeLaFila(k, ultima)}

\* For every race and code the amount is that of the last row that gives
\* one, and there is none when no row gives one.
UltimaFilaQueAsigna(ultima) ==
    \A n \in 0..(MaxCarrera + 15), c \in {"EXA", "IMP", "WPS"} :
        IF FilasPalermoQueAsignan(n, c, ultima) = {}
        THEN n \in DOMAIN datos_reporte => c \notin DOMAIN datos_reporte[n]
        ELSE /\ n \in DOMAIN datos_reporte
             /\ c \in DOMAIN datos_reporte[n]
             /\ datos_reporte[n][c] =
                    entrada[Max(FilasPalermoQueAsignan(n, c, ultima))].valor

C29_TestigoCarreraCero ==
    /\ FinReportePalermo
    /\ Len(entrada) = 2
    /\ entrada[1].race_map.todas /\ entrada[1].tipo_rsm = "EXA" /\ entrada[1].valor # NULL
    /\ entrada[2].race_map = MapaUna(0) /\ entrada[2].tipo_rsm = "IMP" /\ entrada[2].valor # NULL
    /\ DOMAIN datos_reporte = 0..15
    /\ datos_reporte[0] = [c \in {"IMP"} |-> entrada[2].valor]
    /\ \A n \in 1..15 : datos_reporte[n] = [c \in {"EXA"} |-> entrada[1].valor]

C29_TestigoQuince ==
    /\ FinReportePalermo
    /\ Len(entrada) = 1
    /\ entrada[1].race_map.todas
    /\ DOMAIN datos_reporte = 1..15

\* A row for race 1 and then an "ALL" row with another amount for the same
\* code: the second amount stays.
C29_TestigoSobrescrita ==
    /\ FinReportePalermo
    /\ Len(entrada) = 2
    /\ entrada[1].race_map = MapaUna(1) /\ entrada[2].race_map.todas
    /\ entrada[1].tipo_rsm = "EXA" /\ entrada[2].tipo_rsm = "EXA"
    /\ entrada[1].valor # NULL /\ entrada[2].valor # NULL
    /\ entrada[1].valor # entrada[2].valor
    /\ DOMAIN datos_reporte = {1}
    /\ datos_reporte[1]["EXA"] = entrada[2].valor

====
